---- MODULE Spec2Model ----
(***************************************************************************)
(* The for_each executor of src/apps/gmetis/HEM.h (ForEachExecutor and     *)
(* AbortHandler) running over a StealingLocalWL worklist, together with    *)
(* the termination detector, the barrier and the thread pool it consumes.  *)
(***************************************************************************)
EXTENDS Integers, Sequences, FiniteSets, TLC

(* ------------------------------ bounds --------------------------------- *)
MaxThreads == 2
MaxSeeds == 2
MaxItem == 3
MaxRetries == 3
\* the batch cap __NUM of go(): 64 in the source, scaled to the item bound
NUM == 2
\* threads of the pool, threads per socket and queued records when
\* AbortHandler is exercised on its own
MaxPoolThreads == 6
MaxPerSocket == 3
MaxRecords == 2
\* values and number of pushes when a worklist is exercised on its own
MaxVal == 3
MaxPush == 4
\* length of the range a worklist is seeded with
MaxFill == 3
\* chunks a FIFO called by several threads can allocate
MaxChunks == MaxVal + 1
\* nodes of the query graph and of the data graph, labels, and the largest
\* kFound of the subgraph search
NQ == 2
ND == 3
NumLabels == 1
MaxFound == 2
\* pages the OS hands out, and pages asked of pagePreAlloc
MaxPages == 3
MaxPre == 2
\* capacity of a chunk: 128 in FIFO and 64 by default in ChunkedFIFO, scaled
\* to the number of pushes
ChunkSize == 2
\* range of OrderedByIntegerMetric: 32 * 1024 by default, scaled to the values
OBIMRange == 2

Threads == 0 .. (MaxThreads - 1)
Items == 1 .. MaxItem
NoItem == [val |-> 0, retries |-> 0]
NoCall == [op |-> "none"]
NoProbe == [tid |-> MaxThreads, ret |-> FALSE]
Idle == [pc |-> "idle"]
NoThread == MaxThreads
NoHist == <<>>
NoCalls == [t \in Threads |-> Idle]
NoDrain == [left |-> 0, cut |-> FALSE]
\* the history of a handleAborts after a pop from a queue of len records,
\* the n + 1st pop of the call
popped1(d, n, len) ==
  [left |-> IF n = 0 THEN len - 1 ELSE IF d.left > 0 THEN d.left - 1 ELSE 0,
   cut |-> FALSE]
Vals == 0 .. MaxVal
NoBag == [v \in Vals |-> 0]
RECURSIVE SumTo(_, _)
SumTo(f, n) == IF n < 0 THEN 0 ELSE f[n] + SumTo(f, n - 1)

VARIABLES
  activeThreads,  \* number of workers of the run
  perSocket,      \* hardware threads per socket (thread pool topology)
  needsBreak,     \* trait parallel_break_tag
  needsAborts,    \* trait: conflict detection not disabled
  needsPush,      \* trait: no no_pushes_tag, the operator may push
  nseeds,         \* size of the input range
  stubborn,       \* item on which the operator conflicts on every run (0: none)
  needStats,      \* trait: the loop keeps statistics
  exact,          \* wl.empty() is exact; if not it is a best-effort probe that
                  \* may answer false for an empty worklist
  wl,             \* StealingLocalWL::data, one FIFO per thread
  queues,         \* AbortHandler::queues, one list of (val, retries) per thread
  pc,             \* position of each worker
  lwl,            \* which list runQueueDispatch is draining: "wl" or "aborted"
  num,            \* RunQueueState::num
  item,           \* RunQueueState::item
  didWork,        \* local didWork of go()
  pushBuffer,     \* UserContextAccess push buffer
  pia,            \* per-iteration allocator holds memory
  ctx,            \* SimpleRuntimeContext: iteration open, acquisitions logged
  broke,          \* ForEachExecutor::broke
  term,           \* termination detector
  barrier,        \* set of threads blocked in barrier.Wait()
  committed,      \* history: number of commits of the operator per item
  everAborted,    \* history: items of which an iteration has aborted
  owed,           \* history: worker committed since its last SignalWorked
  rolled,         \* history: an abort has discarded a non-empty push buffer
  invoked,        \* history: the operator has been invoked in this run
  firstBroke,     \* history: the first operator invocation of the run set
                  \* broke (1: it is running, 2: its iteration is over)
  late,           \* history: operator invocations begun after that iteration
  stats,          \* LoopStatistics of each worker: iterations, conflicts,
                  \* pushes
  tally,          \* history, kept in runs with statistics: the iterations
                  \* each worker committed and aborted, the items it moved
                  \* from its push buffer into the worklist, and those of
                  \* them it moved when committing
  remote,         \* history: an abort has put a record into the queue of
                  \* another worker that had signalled no work and not yet
                  \* tested Working()
  aborts,         \* history: aborts of each item since it left the main worklist
  drain,          \* history: of the worker's last handleAborts, the records
                  \* that were queued at its first pop and are not yet
                  \* popped (left), and whether its last iteration aborted
  trace,          \* history: the items the operator was invoked on, in order,
                  \* in a run with one worker
  last,           \* history: the last call of AbortHandler::push made on its
                  \* own (none inside a for_each run)
  kind,           \* the worklist class exercised on its own ("none" in a run)
  popper,         \* the thread that calls pop on it (thread 0 calls push)
  ws,             \* the members of that worklist object
  pushed,         \* history: how often each value was pushed
  popped,         \* history: the values pop has returned, in order
  popFailed,       \* history: the last call was a pop that reported failure
  mixed,          \* history: a push was made after a pop
  filled,         \* history: the object was seeded with fill_initial
  probe,          \* history: the thread that called empty() since the last
                  \* push or pop, and the answer it got
  call,           \* history: the last call made on the object
  hist,           \* history of the calls that are run step by step
  th              \* when the calls of an object are run step by step by
                  \* several threads: where each thread is in its call, its
                  \* locals, and what it has seen since the call began

cfgvars == <<activeThreads, perSocket, needsBreak, needsAborts, needsPush, nseeds, stubborn,
             needStats, exact>>
statvars == <<stats, tally>>
exevars == <<wl, queues, pc, lwl, num, item, didWork, pushBuffer, pia, ctx, broke>>
histvars == <<committed, everAborted, owed, rolled, invoked, firstBroke, late, remote>>
wlvars == <<kind, popper, ws, pushed, popped, popFailed, mixed, filled, probe, call, hist, th>>
\* what only the calls made one after the other use
seqvars == <<kind, popper, pushed, popped, popFailed, mixed, filled, probe, call>>
\* all but the object exercised on its own and the threads calling it
restvars == <<cfgvars, exevars, term, barrier, histvars, statvars, aborts, drain, trace, last>>
unitvars == <<last, wlvars>>
vars == <<cfgvars, exevars, term, barrier, histvars, aborts, drain, trace, statvars, unitvars>>

Workers == 0 .. (activeThreads - 1)

(* ------------------------- thread pool topology ------------------------ *)
getSocket(tid) == tid \div perSocket
getLeaderForSocket(s) == s * perSocket
getLeader(tid) == getLeaderForSocket(getSocket(tid))
isLeader(tid) == getLeader(tid) = tid
getMaxSockets == (activeThreads + perSocket - 1) \div perSocket

(* ------------------------------ operator ------------------------------- *)
\* a split of the range that hands every worker an item
SliceOne(w) == <<w + 1>>

\* the input range: items 1..nseeds, worker w seeds its slice
Slice(w) == SelectSeq([i \in 1 .. nseeds |-> i], LAMBDA v : (v - 1) % activeThreads = w)
\* the items the operator pushes while it runs on v
Children(v) == IF needsPush /\ v + MaxSeeds <= MaxItem THEN <<v + MaxSeeds>> ELSE <<>>
\* the operator calls break_loop() on this item
BreakItem(v) == v = 1

(* ---------------------------- AbortHandler ----------------------------- *)
\* a constructor that picks the basic policy on the small machines
useBasicPolicyLow == getMaxSockets <= 2

\* AbortHandler::AbortHandler
useBasicPolicy == getMaxSockets > 2

\* a policy that keeps the record on the caller's socket
basicPolicySame(tid, it) == getLeaderForSocket(getSocket(tid))

\* AbortHandler::basicPolicy: the thread whose queue takes the record
basicPolicy(tid, it) == getLeaderForSocket(getSocket(tid) \div 2)

\* AbortHandler::eagerPolicy, retry locally only, in place of doublePolicy
eagerPolicy(tid, it) == tid

\* AbortHandler::boundedPolicy, in place of doublePolicy
boundedPolicy(tid, it) ==
  LET retries == it.retries - 1
      leader == getLeaderForSocket(getSocket(tid))
  IN  IF retries < 2 THEN tid
      ELSE IF retries < 5 /\ tid # leader THEN leader + (tid - leader) \div 2
      ELSE getLeaderForSocket(getSocket(tid) \div 2)

\* AbortHandler::doublePolicy: the thread whose queue takes the record
doublePolicy(tid, it) ==
  LET retries == it.retries - 1
      leader == getLeader(tid)
  IN  IF retries % 2 = 1 THEN tid
      ELSE IF tid # leader THEN leader + (tid - leader) \div 2
      ELSE getLeaderForSocket(getSocket(tid) \div 2)

\* retries + 1; for the item that conflicts forever the count is folded
\* back by two once it passes the bound, which keeps the parity the
\* policies look at
incRetries(it) ==
  IF it.retries + 1 > MaxRetries + 1 THEN it.retries - 1 ELSE it.retries + 1

\* a push that loses the value
pushValLost(q, tid, v) == q

\* a push that starts the count at zero
pushValZero(q, tid, v) == [q EXCEPT ![tid] = Append(@, [val |-> v, retries |-> 0])]

\* AbortHandler::push(const value_type&)
pushVal(q, tid, v) == [q EXCEPT ![tid] = Append(@, [val |-> v, retries |-> 1])]

\* a push that leaves a copy of the record with the caller as well
pushItemTwice(q, tid, it) ==
  LET newitem == [val |-> it.val, retries |-> it.retries + 1]
  IN  [t \in Threads |->
         IF t = tid \/ t = 0 THEN Append(q[t], newitem) ELSE q[t]]

\* AbortHandler::push(const Item&)
pushItem(q, tid, it) ==
  LET newitem == [val |-> it.val, retries |-> incRetries(it)]
      to == IF useBasicPolicy THEN basicPolicy(tid, newitem)
            ELSE doublePolicy(tid, newitem)
  IN  [q EXCEPT ![to] = Append(@, newitem)]

\* a handler that drops a record when it aborts again
abortedPushOnce(q, tid, it, from) ==
  IF from = "wl" THEN pushVal(q, tid, it.val) ELSE q

\* aborted.push(item) of abortIteration: overload chosen by the list drained
abortedPush(q, tid, it, from) ==
  IF from = "wl" THEN pushVal(q, tid, it.val) ELSE pushItem(q, tid, it)

(* --------------------------- StealingLocalWL --------------------------- *)
getNext(tid) == (tid + 1) % activeThreads
wlPush(l, tid, s) == [l EXCEPT ![tid] = @ \o s]
wlEmpty(l, tid) == l[tid] = <<>>

(* ------------------------ termination detection ------------------------ *)
isSysMaster(tid) == tid = 0

InitializeThread(t, tid) ==
  [t EXCEPT !.tokenIsBlack[tid] = FALSE,
            !.processIsBlack[tid] = TRUE,
            !.lastWasWhite = IF isSysMaster(tid) THEN TRUE ELSE @,
            !.globalTerm = FALSE]

propToken(t, tid, taint) ==
  LET nx == getNext(tid)
      t1 == [t EXCEPT !.processIsBlack[tid] = FALSE,
                      !.tokenIsBlack[tid] = FALSE,
                      !.hasToken[tid] = FALSE]
  IN  [t1 EXCEPT !.tokenIsBlack[nx] = taint, !.hasToken[nx] = TRUE]

SignalWorked(t, tid, workHappened) ==
  LET black == t.processIsBlack[tid] \/ workHappened
      t0 == [t EXCEPT !.processIsBlack[tid] = black]
  IN  IF ~t.hasToken[tid] THEN t0
      ELSE IF isSysMaster(tid)
        THEN LET failed == t.tokenIsBlack[tid] \/ black
             IN  IF t.lastWasWhite /\ ~failed
                   THEN [t0 EXCEPT !.processIsBlack[tid] = FALSE,
                                   !.tokenIsBlack[tid] = FALSE,
                                   !.globalTerm = TRUE]
                   ELSE propToken([t0 EXCEPT !.lastWasWhite = ~failed], tid, FALSE)
        ELSE propToken(t0, tid, black \/ t.tokenIsBlack[tid])

Working(t) == ~t.globalTerm

(* ---------------------------- LoopStatistics --------------------------- *)
NoStats == [iterations |-> 0, conflicts |-> 0, pushes |-> 0]
NoTally == [commits |-> 0, aborts |-> 0, moved |-> 0, atCommit |-> 0]
\* LoopStatistics<needStats>: the counters exist when needStats is set
inc_iterations(st, tid) ==
  IF needStats THEN [st EXCEPT ![tid].iterations = @ + 1] ELSE st
inc_conflicts(st, tid) ==
  IF needStats THEN [st EXCEPT ![tid].conflicts = @ + 1] ELSE st
inc_pushes(st, tid, n) ==
  IF needStats THEN [st EXCEPT ![tid].pushes = @ + n] ELSE st

(* -------------------------- UserContextAccess -------------------------- *)
\* a reset that leaves the buffer as it is
resetPushBufferKeep(pb, tid) == pb
\* if (needsPush) the push buffer is cleared
resetPushBuffer(pb, tid) == IF needsPush THEN [pb EXCEPT ![tid] = <<>>] ELSE pb
resetAlloc(a, tid) == [a EXCEPT ![tid] = FALSE]

(* ------------------------------ executor ------------------------------- *)
\* a dispatch that looks at the trait only
couldAbortAlone == needsAborts

\* operator()(): couldAbort = needsAborts && activeThreads > 1
couldAbort == needsAborts /\ activeThreads > 1
\* a main batch without limit
limitNone(tid) == 0
\* constexpr int __NUM = (needsBreak || isLeader) ? 64 : 0
limit(tid) == IF needsBreak \/ isLeader(tid) THEN NUM ELSE 0
\* a handleAborts that retries one record for each call when the main
\* batch is limited
handleAbortsLimitOne == IF NUM # 0 THEN 1 ELSE 0
\* handleAborts: runQueue<0>, no limit
handleAbortsLimit == 0
\* a shortcut installed when the operator does not push
fastPushNoPushes == ~needsPush /\ ~couldAbort
\* if (needsPush && !couldAbort) tld.facing.setFastPushBack(...); needsPia
\* is taken as set: the operator uses the per-iteration allocator
fastPush == needsPush /\ ~couldAbort

\* if (needsAborts) tld.ctx.startIteration()
startIteration(c, tid) == [c EXCEPT ![tid] = needsAborts]
\* if (needsAborts) tld.ctx.commitIteration()
ctxCommitIteration(c, tid) == [c EXCEPT ![tid] = FALSE]
\* an abort that leaves the iteration open
cancelIterationNone(c, tid) == c
\* tld.ctx.cancelIteration()
cancelIteration(c, tid) == [c EXCEPT ![tid] = FALSE]

\* the conflict detection lets an iteration on record it abort
mayConflict(it) == couldAbort /\ (it.val = stubborn \/ it.retries < MaxRetries)
mayComplete(it) == it.val # stubborn \/ ~couldAbort

\* no worklist is exercised on its own
WorklistOff ==
  /\ kind = "none"
  /\ popper = 0
  /\ ws = <<>>
  /\ pushed = NoBag
  /\ popped = <<>>
  /\ popFailed = FALSE
  /\ mixed = FALSE
  /\ filled = FALSE
  /\ probe = NoProbe
  /\ call = "none"
  /\ hist = NoHist
  /\ th = NoCalls

\* the state after the constructor of ForEachExecutor
InitExecutor ==
  /\ wl = [t \in Threads |-> <<>>]
  /\ queues = [t \in Threads |-> <<>>]
  /\ pc = [t \in Threads |-> IF t < activeThreads THEN "init" ELSE "off"]
  /\ lwl = [t \in Threads |-> "wl"]
  /\ num = [t \in Threads |-> 0]
  /\ item = [t \in Threads |-> NoItem]
  /\ didWork = [t \in Threads |-> FALSE]
  /\ pushBuffer = [t \in Threads |-> <<>>]
  /\ pia = [t \in Threads |-> FALSE]
  /\ ctx = [t \in Threads |-> FALSE]
  /\ broke = FALSE
  /\ term = [tokenIsBlack |-> [t \in Threads |-> FALSE],
             processIsBlack |-> [t \in Threads |-> TRUE],
             hasToken |-> [t \in Threads |-> isSysMaster(t)],
             lastWasWhite |-> TRUE,
             globalTerm |-> FALSE]
  /\ barrier = {}
  /\ committed = [v \in Items |-> 0]
  /\ everAborted = {}
  /\ owed = [t \in Threads |-> FALSE]
  /\ rolled = FALSE
  /\ invoked = FALSE
  /\ firstBroke = 0
  /\ late = 0
  /\ remote = FALSE
  /\ stats = [t \in Threads |-> NoStats]
  /\ tally = [t \in Threads |-> NoTally]
  /\ aborts = [v \in Items |-> 0]
  /\ drain = [t \in Threads |-> NoDrain]
  /\ trace = <<>>
  /\ last = NoCall
  /\ WorklistOff

Init ==
  /\ activeThreads \in 1 .. MaxThreads
  /\ perSocket \in 1 .. 2
  /\ needsBreak \in BOOLEAN
  /\ needsAborts \in BOOLEAN
  /\ needsPush \in BOOLEAN
  /\ nseeds \in {0, MaxSeeds}
  /\ stubborn = 0
  /\ exact = TRUE
  /\ needStats = FALSE
  /\ InitExecutor

\* a run with conflict detection in which the operator conflicts on every
\* invocation on item 2
InitAlways ==
  /\ activeThreads \in 2 .. MaxThreads
  /\ perSocket \in 1 .. 2
  /\ needsBreak \in BOOLEAN
  /\ needsAborts = TRUE
  /\ needsPush = TRUE
  /\ nseeds = MaxSeeds
  /\ stubborn = 2
  /\ exact = TRUE
  /\ needStats = FALSE
  /\ InitExecutor

\* a run on a worklist whose empty() is a best-effort probe
InitProbe ==
  /\ activeThreads \in 1 .. MaxThreads
  /\ perSocket = 1
  /\ needsBreak \in BOOLEAN
  /\ needsAborts \in BOOLEAN
  /\ needsPush = TRUE
  /\ nseeds = MaxSeeds
  /\ stubborn = 0
  /\ exact = FALSE
  /\ needStats = FALSE
  /\ InitExecutor

\* ForEachExecutor::initThread
initThread(w) ==
  /\ pc[w] = "init"
  /\ wl' = wlPush(wl, w, Slice(w))
  /\ term' = InitializeThread(term, w)
  /\ pc' = [pc EXCEPT ![w] = "pop"]
  /\ UNCHANGED <<cfgvars, unitvars, statvars, drain, aborts, trace, queues, lwl, num, item, didWork, pushBuffer, pia,
                 ctx, broke, barrier, histvars>>

\* a runQueue that reports work whatever it did
endRunQueueBusy(w, n) ==
  /\ didWork' = [didWork EXCEPT ![w] = TRUE]
  /\ num' = [num EXCEPT ![w] = 0]
  /\ IF lwl[w] = "wl" /\ couldAbort
       THEN /\ lwl' = [lwl EXCEPT ![w] = "aborted"]
            /\ pc' = [pc EXCEPT ![w] = "pop"]
       ELSE /\ lwl' = [lwl EXCEPT ![w] = "wl"]
            /\ pc' = [pc EXCEPT ![w] = "signal"]

\* a runQueue whose result is dropped: didWork stays as it was
endRunQueueIdle(w, n) ==
  /\ didWork' = didWork
  /\ num' = [num EXCEPT ![w] = 0]
  /\ IF lwl[w] = "wl" /\ couldAbort
       THEN /\ lwl' = [lwl EXCEPT ![w] = "aborted"]
            /\ pc' = [pc EXCEPT ![w] = "pop"]
       ELSE /\ lwl' = [lwl EXCEPT ![w] = "wl"]
            /\ pc' = [pc EXCEPT ![w] = "signal"]

\* the loop of runQueueDispatch ends with s.num = n: runQueue returns n > 0,
\* go() goes on to handleAborts or to SignalWorked
endRunQueue(w, n) ==
  /\ didWork' = [didWork EXCEPT ![w] = @ \/ (n > 0)]
  /\ num' = [num EXCEPT ![w] = 0]
  /\ IF lwl[w] = "wl" /\ couldAbort
       THEN /\ lwl' = [lwl EXCEPT ![w] = "aborted"]
            /\ pc' = [pc EXCEPT ![w] = "pop"]
       ELSE /\ lwl' = [lwl EXCEPT ![w] = "wl"]
            /\ pc' = [pc EXCEPT ![w] = "signal"]

\* s.item = lwl.pop() succeeded; ++s.num; doProcess starts the iteration
beginIteration(w, it) ==
  /\ item' = [item EXCEPT ![w] = it]
  /\ num' = [num EXCEPT ![w] = @ + 1]
  /\ ctx' = startIteration(ctx, w)
  /\ pc' = [pc EXCEPT ![w] = "operate"]
  /\ aborts' = IF lwl[w] = "wl" THEN [aborts EXCEPT ![it.val] = 0] ELSE aborts
  /\ stats' = inc_iterations(stats, w)
  /\ UNCHANGED <<lwl, didWork>>

\* loop head of runQueueDispatch / runQueueSimple: limit test, then pop of
\* the caller's own list
pop(w) ==
  /\ pc[w] = "pop"
  /\ IF lwl[w] = "wl"
       THEN IF (couldAbort \/ needsBreak) /\ limit(w) # 0 /\ num[w] >= limit(w)
              THEN /\ endRunQueue(w, num[w])
                   /\ UNCHANGED <<wl, queues, item, ctx, aborts, stats, drain>>
            ELSE IF wl[w] # <<>>
              THEN /\ beginIteration(w, [val |-> Head(wl[w]), retries |-> 0])
                   /\ wl' = [wl EXCEPT ![w] = Tail(@)]
                   /\ UNCHANGED <<queues, drain>>
            ELSE /\ pc' = [pc EXCEPT ![w] = "steal"]
                 /\ UNCHANGED <<wl, queues, item, ctx, num, lwl, didWork, aborts, stats,
                                drain>>
       ELSE IF (handleAbortsLimit = 0 \/ num[w] < handleAbortsLimit) /\ queues[w] # <<>>
              THEN /\ beginIteration(w, Head(queues[w]))
                   /\ queues' = [queues EXCEPT ![w] = Tail(@)]
                   /\ drain' = [drain EXCEPT ![w] = popped1(@, num[w], Len(queues[w]))]
                   /\ UNCHANGED wl
            ELSE /\ endRunQueue(w, num[w])
                 /\ drain' = IF num[w] = 0
                               THEN [drain EXCEPT ![w] = [left |-> Len(queues[w]), cut |-> FALSE]]
                               ELSE drain
                 /\ UNCHANGED <<wl, queues, item, ctx, aborts, stats>>
  /\ UNCHANGED <<cfgvars, unitvars, tally, trace, pushBuffer, pia, broke, term, barrier,
                 histvars>>

\* StealingLocalWL::pop, second half: data.getNext().pop()
steal(w) ==
  /\ pc[w] = "steal"
  /\ LET nx == getNext(w)
     IN  IF wl[nx] # <<>>
           THEN /\ beginIteration(w, [val |-> Head(wl[nx]), retries |-> 0])
                /\ wl' = [wl EXCEPT ![nx] = Tail(@)]
           ELSE /\ endRunQueue(w, num[w])
                /\ UNCHANGED <<wl, item, ctx, aborts, stats>>
  /\ UNCHANGED <<cfgvars, unitvars, tally, drain, trace, queues, pushBuffer, pia, broke, term,
                 barrier, histvars>>

\* tld.function(val, tld.facing.data()): the operator allocates, pushes its
\* children and may raise the break flag; a conflict leaves it early
operate(w) ==
  /\ pc[w] = "operate"
  /\ LET v == item[w].val
         brk == needsBreak /\ BreakItem(v)
     IN  /\ invoked' = TRUE
         /\ trace' = IF activeThreads = 1 THEN Append(trace, v) ELSE trace
         /\ late' = IF firstBroke = 2 THEN late + 1 ELSE late
         /\ \/ \* conflict before the operator had any effect
               /\ mayConflict(item[w])
               /\ pc' = [pc EXCEPT ![w] = "abort"]
               /\ UNCHANGED <<wl, pushBuffer, pia, broke, firstBroke>>
            \/ \* the operator runs, to its end or to a late conflict
               /\ \/ mayComplete(item[w]) /\ pc' = [pc EXCEPT ![w] = "commit"]
                  \/ mayConflict(item[w]) /\ pc' = [pc EXCEPT ![w] = "abort"]
               /\ pia' = [pia EXCEPT ![w] = TRUE]
               /\ broke' = (broke \/ brk)
               /\ firstBroke' = IF brk /\ ~invoked THEN 1 ELSE firstBroke
               /\ IF fastPush
                    THEN /\ wl' = wlPush(wl, w, Children(v))
                         /\ UNCHANGED pushBuffer
                    ELSE /\ pushBuffer' = [pushBuffer EXCEPT ![w] = @ \o Children(v)]
                         /\ UNCHANGED wl
  /\ tally' = IF needStats
                THEN [tally EXCEPT ![w].moved = @ + Len(wl'[w]) - Len(wl[w])]
                ELSE tally
  /\ UNCHANGED <<cfgvars, unitvars, stats, drain, aborts, queues, lwl, num, item, didWork, ctx,
                 term, barrier, committed, everAborted, owed, rolled, remote>>

\* a commit that forgets the push buffer
commitPushNone(l, tid, pb) == l

\* commitIteration: if (n) wl.push(pb.begin(), pb.end())
commitPush(l, tid, pb) == IF needsPush /\ Len(pb) > 0 THEN wlPush(l, tid, pb) ELSE l

\* a commit that counts no pushes
commitStatsNone(st, tid, pb) == st

\* commitIteration: if (n) tld.inc_pushes(n)
commitStats(st, tid, pb) ==
  IF needsPush /\ Len(pb) > 0 THEN inc_pushes(st, tid, Len(pb)) ELSE st

\* ForEachExecutor::commitIteration, then back to the loop head
commitIteration(w) ==
  /\ pc[w] = "commit"
  /\ wl' = commitPush(wl, w, pushBuffer[w])
  /\ pushBuffer' = resetPushBuffer(pushBuffer, w)
  /\ pia' = resetAlloc(pia, w)
  /\ ctx' = ctxCommitIteration(ctx, w)
  /\ stats' = commitStats(stats, w, pushBuffer[w])
  /\ tally' = IF needStats
                THEN [tally EXCEPT ![w].commits = @ + 1,
                                   ![w].moved = @ + Len(wl'[w]) - Len(wl[w]),
                                   ![w].atCommit = @ + Len(wl'[w]) - Len(wl[w])]
                ELSE tally
  /\ committed' = [committed EXCEPT ![item[w].val] = @ + 1]
  /\ aborts' = [aborts EXCEPT ![item[w].val] = 0]
  /\ owed' = [owed EXCEPT ![w] = TRUE]
  /\ item' = [item EXCEPT ![w] = NoItem]
  /\ pc' = [pc EXCEPT ![w] = "pop"]
  /\ firstBroke' = IF firstBroke = 1 /\ BreakItem(item[w].val) THEN 2 ELSE firstBroke
  /\ UNCHANGED <<cfgvars, unitvars, drain, trace, queues, lwl, num, didWork, broke, term,
                 barrier, everAborted, rolled, invoked, late, remote>>

\* ForEachExecutor::abortIteration, after which runQueueDispatch returns
abortIteration(w) ==
  /\ pc[w] = "abort"
  /\ ctx' = cancelIteration(ctx, w)
  /\ stats' = inc_conflicts(stats, w)
  /\ tally' = IF needStats THEN [tally EXCEPT ![w].aborts = @ + 1] ELSE tally
  /\ queues' = abortedPush(queues, w, item[w], lwl[w])
  /\ pushBuffer' = resetPushBuffer(pushBuffer, w)
  /\ pia' = resetAlloc(pia, w)
  /\ everAborted' = everAborted \cup {item[w].val}
  /\ aborts' = [aborts EXCEPT ![item[w].val] = incRetries([retries |-> @])]
  /\ drain' = IF lwl[w] = "aborted" THEN [drain EXCEPT ![w].cut = TRUE] ELSE drain
  /\ rolled' = (rolled \/ pushBuffer[w] # <<>>)
  /\ remote' = (remote \/ \E u \in Workers \ {w} :
                              /\ queues'[u] # queues[u]
                              /\ pc[u] = "check" /\ ~didWork[u])
  /\ item' = [item EXCEPT ![w] = NoItem]
  /\ endRunQueue(w, num[w])
  /\ firstBroke' = IF firstBroke = 1 /\ BreakItem(item[w].val) THEN 2 ELSE firstBroke
  /\ UNCHANGED <<cfgvars, unitvars, trace, wl, broke, term, barrier, committed, owed, invoked,
                 late>>

\* term.SignalWorked(didWork)
signalWorked(w) ==
  /\ pc[w] = "signal"
  /\ term' = SignalWorked(term, w, didWork[w])
  /\ owed' = [owed EXCEPT ![w] = FALSE]
  /\ pc' = [pc EXCEPT ![w] = "check"]
  /\ UNCHANGED <<cfgvars, unitvars, statvars, drain, aborts, trace, wl, queues, lwl, num, item, didWork, pushBuffer, pia,
                 ctx, broke, barrier, committed, everAborted, rolled, invoked, remote,
                 firstBroke, late>>

\* a loop condition that does not look at the break flag
loopAgainTerm(t, b) == Working(t)

\* a do loop that runs one round
loopOnce(t, b) == FALSE

\* while (term.Working() && (!needsBreak || !broke))
loopAgain(t, b) == Working(t) /\ (~needsBreak \/ ~b)

\* the test of the do loop of go(); a new round starts with didWork = false
check(w) ==
  /\ pc[w] = "check"
  /\ didWork' = [didWork EXCEPT ![w] = FALSE]
  /\ IF loopAgain(term, broke)
       THEN pc' = [pc EXCEPT ![w] = "pop"]
       ELSE pc' = [pc EXCEPT ![w] = "after"]
  /\ UNCHANGED <<cfgvars, unitvars, statvars, drain, aborts, trace, wl, queues, lwl, num, item, pushBuffer, pia, ctx,
                 broke, term, barrier, histvars>>

\* an exit test that leaves out the break flag
afterNoBreak(w) ==
  /\ pc[w] = "after"
  /\ IF wlEmpty(wl, w)
       THEN /\ pc' = [pc EXCEPT ![w] = "finish"]
            /\ UNCHANGED term
       ELSE /\ pc' = [pc EXCEPT ![w] = "barrier"]
            /\ term' = InitializeThread(term, w)
  /\ UNCHANGED <<cfgvars, unitvars, statvars, drain, aborts, trace, wl, queues, lwl, num, item, didWork, pushBuffer, pia,
                 ctx, broke, barrier, histvars>>

\* the answers checkEmpty(wl, tld, 0) can give to worker tid
checkEmpty(tid) == IF exact THEN {wlEmpty(wl, tid)} ELSE {wlEmpty(wl, tid), FALSE}

\* after the do loop: checkEmpty, the break test, else re-initialise
after(w) ==
  /\ pc[w] = "after"
  /\ \E e \in checkEmpty(w) :
       IF e \/ (needsBreak /\ broke)
         THEN /\ pc' = [pc EXCEPT ![w] = "finish"]
              /\ UNCHANGED term
         ELSE /\ pc' = [pc EXCEPT ![w] = "barrier"]
              /\ term' = InitializeThread(term, w)
  /\ UNCHANGED <<cfgvars, unitvars, statvars, drain, aborts, trace, wl, queues, lwl, num, item, didWork, pushBuffer, pia,
                 ctx, broke, barrier, histvars>>

\* where a thread goes on when barrier.Wait() returns
released(p) == IF p \in {"barrier", "blocked"} THEN "pop" ELSE "done"

\* barrier.Wait(): inside go() and as the callback of for_each_impl
barrierWait(w) ==
  /\ pc[w] \in {"barrier", "finish"}
  /\ IF Cardinality(barrier \cup {w}) = activeThreads
       THEN /\ barrier' = {}
            /\ pc' = [t \in Threads |->
                        IF t = w \/ t \in barrier THEN released(pc[t]) ELSE pc[t]]
       ELSE /\ barrier' = barrier \cup {w}
            /\ pc' = [pc EXCEPT ![w] = IF @ = "barrier" THEN "blocked" ELSE "blockedfin"]
  /\ UNCHANGED <<cfgvars, unitvars, statvars, drain, aborts, trace, wl, queues, lwl, num, item, didWork, pushBuffer, pia,
                 ctx, broke, term, histvars>>

step(w) ==
  \/ initThread(w)
  \/ pop(w)
  \/ steal(w)
  \/ operate(w)
  \/ commitIteration(w)
  \/ abortIteration(w)
  \/ signalWorked(w)
  \/ check(w)
  \/ after(w)
  \/ barrierWait(w)

Next == \E w \in Threads : step(w)

Spec == Init /\ [][Next]_vars

\* every worker is a thread of the pool that the scheduler keeps running
FairSpec == Spec /\ \A w \in Threads : WF_vars(step(w))

SpecAlways == InitAlways /\ [][Next]_vars
FairAlways == SpecAlways /\ \A w \in Threads : WF_vars(step(w))

SpecProbe == InitProbe /\ [][Next]_vars

\* a run that keeps loop statistics
InitStats ==
  /\ activeThreads \in 1 .. MaxThreads
  /\ perSocket \in 1 .. 2
  /\ needsBreak = FALSE
  /\ needsAborts \in BOOLEAN
  /\ needsPush = TRUE
  /\ nseeds = MaxSeeds
  /\ stubborn = 0
  /\ exact = TRUE
  /\ needStats = TRUE
  /\ InitExecutor

SpecStats == InitStats /\ [][Next]_vars

(* ----------------------- AbortHandler on its own ----------------------- *)
\* no for_each run: the executor has no worker
ExecutorOff ==
  /\ needsBreak = FALSE
  /\ needsAborts = TRUE
  /\ needsPush = TRUE
  /\ nseeds = 0
  /\ stubborn = 0
  /\ exact = TRUE
  /\ needStats = FALSE
  /\ wl = [t \in Threads |-> <<>>]
  /\ pc = [t \in Threads |-> "off"]
  /\ lwl = [t \in Threads |-> "wl"]
  /\ num = [t \in Threads |-> 0]
  /\ item = [t \in Threads |-> NoItem]
  /\ didWork = [t \in Threads |-> FALSE]
  /\ pushBuffer = [t \in Threads |-> <<>>]
  /\ pia = [t \in Threads |-> FALSE]
  /\ ctx = [t \in Threads |-> FALSE]
  /\ broke = FALSE
  /\ term = [tokenIsBlack |-> [t \in Threads |-> FALSE],
             processIsBlack |-> [t \in Threads |-> TRUE],
             hasToken |-> [t \in Threads |-> isSysMaster(t)],
             lastWasWhite |-> TRUE,
             globalTerm |-> FALSE]
  /\ barrier = {}
  /\ committed = [v \in Items |-> 0]
  /\ everAborted = {}
  /\ owed = [t \in Threads |-> FALSE]
  /\ rolled = FALSE
  /\ invoked = FALSE
  /\ firstBroke = 0
  /\ late = 0
  /\ remote = FALSE
  /\ stats = [t \in Threads |-> NoStats]
  /\ tally = [t \in Threads |-> NoTally]
  /\ aborts = [v \in Items |-> 0]
  /\ drain = [t \in Threads |-> NoDrain]
  /\ trace = <<>>

\* the handler as constructed for a pool of activeThreads threads, perSocket
\* to a socket
InitHandler ==
  /\ activeThreads \in 1 .. MaxPoolThreads
  /\ perSocket \in 1 .. MaxPerSocket
  /\ queues = [t \in Workers |-> <<>>]
  /\ last = NoCall
  /\ WorklistOff
  /\ ExecutorOff

Records == SumTo([t \in Workers |-> Len(queues[t])], activeThreads - 1)

\* thread tid calls push(val) with a value taken from the main worklist
handlerPush(tid, v) ==
  /\ Records < MaxRecords
  /\ queues' = pushVal(queues, tid, v)
  /\ last' = [op |-> "val", tid |-> tid, item |-> [val |-> v, retries |-> 0],
              before |-> queues]
  /\ UNCHANGED <<cfgvars, statvars, aborts, drain, trace, wlvars, wl, pc, lwl, num, item, didWork, pushBuffer, pia, ctx,
                 broke, term, barrier, histvars>>

\* thread tid pops the head of its own queue and calls push(record) with it
handlerRetry(tid) ==
  /\ queues[tid] # <<>>
  /\ Head(queues[tid]).retries <= MaxRetries
  /\ LET it == Head(queues[tid])
         q1 == [queues EXCEPT ![tid] = Tail(@)]
     IN  /\ queues' = pushItem(q1, tid, it)
         /\ last' = [op |-> "item", tid |-> tid, item |-> it, before |-> q1]
  /\ UNCHANGED <<cfgvars, statvars, aborts, drain, trace, wlvars, wl, pc, lwl, num, item, didWork, pushBuffer, pia, ctx,
                 broke, term, barrier, histvars>>

NextHandler ==
  \/ \E tid \in Workers, v \in Items : handlerPush(tid, v)
  \/ \E tid \in Workers : handlerRetry(tid)

SpecHandler == InitHandler /\ [][NextHandler]_vars

(* ------------------------------ worklists ------------------------------ *)
\* a null pointer; a pointer to chunk c is <<c>>
Null == <<>>
\* what pop returns, with the members of the object after the call
Got(v, s) == [ok |-> TRUE, val |-> v, s |-> s]
None(s) == [ok |-> FALSE, val |-> 0, s |-> s]
RemoveAt(q, i) == SubSeq(q, 1, i - 1) \o SubSeq(q, i + 1, Len(q))

\* MM::FixedSizeAllocator: chunks handed out so far, chunks given back
NewHeap == [allocs |-> 0, freed |-> {}, twice |-> FALSE]
allocate(h) == [h EXCEPT !.allocs = @ + 1]
deallocate(h, c) ==
  [h EXCEPT !.freed = @ \cup {c.id}, !.twice = @ \/ (c.id \in h.freed)]
\* new (heap.allocate(sizeof(Chunk))) Chunk(): an empty FixedSizeRing
NewChunk(h) == [id |-> h.allocs + 1, ring |-> <<>>]
full(c) == Len(c.ring) = ChunkSize
empty(c) == c.ring = <<>>

\* PriQueue: std::priority_queue with std::less, top() is a greatest element
PriQueue_push(s, v) == Append(s, v)
PriQueue_pop(s) ==
  IF s = <<>> THEN None(s)
  ELSE LET i == CHOOSE i \in DOMAIN s : \A j \in DOMAIN s : s[j] <= s[i]
       IN  Got(s[i], RemoveAt(s, i))

\* LIFO: std::vector, push_back and back / pop_back
LIFO_push(s, v) == Append(s, v)
LIFO_pop(s) ==
  IF s = <<>> THEN None(s) ELSE Got(s[Len(s)], SubSeq(s, 1, Len(s) - 1))

\* sFIFO: std::deque, push_back and front / pop_front
sFIFO_push(s, v) == Append(s, v)
sFIFO_pop(s) == IF s = <<>> THEN None(s) ELSE Got(Head(s), Tail(s))

\* FIFO: the chunks from head to tail, linked by next
FIFO_new == [chunks |-> <<NewChunk(NewHeap)>>, heap |-> allocate(NewHeap)]
\* a push that links the new chunk and forgets the value
FIFO_pushLost(s, v) ==
  LET n == Len(s.chunks)
  IN  IF ~full(s.chunks[n])
        THEN [s EXCEPT !.chunks[n].ring = Append(@, v)]
        ELSE [s EXCEPT !.chunks = Append(@, NewChunk(s.heap)),
                       !.heap = allocate(@)]
FIFO_push(s, v) ==
  LET n == Len(s.chunks)
  IN  IF ~full(s.chunks[n])
        THEN [s EXCEPT !.chunks[n].ring = Append(@, v)]
        ELSE [s EXCEPT !.chunks = Append(@, [NewChunk(s.heap) EXCEPT !.ring = <<v>>]),
                       !.heap = allocate(@)]
\* a pop that never unlinks the empty head chunk
popEmptyChunksKeep(s) == s
RECURSIVE popEmptyChunksLocked(_)
popEmptyChunksLocked(s) ==
  IF empty(s.chunks[1]) /\ Len(s.chunks) > 1
    THEN popEmptyChunksLocked([s EXCEPT !.chunks = Tail(@),
                                        !.heap = deallocate(@, s.chunks[1])])
    ELSE s
FIFO_pop(s) ==
  LET s1 == popEmptyChunksLocked(s)
  IN  IF empty(s1.chunks[1]) THEN None(s1)
      ELSE Got(Head(s1.chunks[1].ring), [s1 EXCEPT !.chunks[1].ring = Tail(@)])

\* FIFO::empty: drops the empty chunks at the front, then asks the head chunk
FIFO_empty(s) ==
  LET s1 == popEmptyChunksLocked(s)
  IN  [ok |-> empty(s1.chunks[1]), val |-> 0, s |-> s1]

\* ChunkedFIFO: data is the per-thread pair (cur, next), head the shared list
ChunkedFIFO_new ==
  [data |-> [t \in Workers |-> [cur |-> Null, next |-> Null]],
   head |-> <<>>, heap |-> NewHeap]
pushChunk(s, C) == [s EXCEPT !.head = Append(@, C)]
\* a popChunk that never finds a chunk
popChunkNone(s) == [r |-> Null, s |-> s]

\* the state after popChunk and the pointer it returns
popChunk(s) ==
  IF s.head # <<>> THEN [r |-> <<Head(s.head)>>, s |-> [s EXCEPT !.head = Tail(@)]]
  ELSE [r |-> Null, s |-> s]
ChunkedFIFO_push(s, tid, v) ==
  LET n == s.data[tid]
      s1 == IF n.next # Null /\ full(n.next[1])
              THEN [pushChunk(s, n.next[1]) EXCEPT !.data[tid].next = Null]
              ELSE s
      s2 == IF s1.data[tid].next = Null
              THEN [s1 EXCEPT !.data[tid].next = <<NewChunk(s1.heap)>>,
                              !.heap = allocate(@)]
              ELSE s1
  IN  [s2 EXCEPT !.data[tid].next[1].ring = Append(@, v)]
\* a pop that forgets to give the empty chunk back
ChunkedFIFO_popLeak(s, tid) ==
  LET n == s.data[tid]
      s1 == IF n.cur # Null /\ empty(n.cur[1])
              THEN [s EXCEPT !.data[tid].cur = Null]
              ELSE s
      pc1 == popChunk(s1)
      s2 == IF s1.data[tid].cur # Null THEN s1
            ELSE IF pc1.r # Null THEN [pc1.s EXCEPT !.data[tid].cur = pc1.r]
            ELSE [s1 EXCEPT !.data[tid].cur = s1.data[tid].next,
                            !.data[tid].next = Null]
  IN  IF s2.data[tid].cur = Null \/ empty(s2.data[tid].cur[1]) THEN None(s2)
      ELSE Got(Head(s2.data[tid].cur[1].ring),
               [s2 EXCEPT !.data[tid].cur[1].ring = Tail(@)])
\* a pop that adopts the caller's producer chunk before it asks the shared list
ChunkedFIFO_popOwnFirst(s, tid) ==
  LET n == s.data[tid]
      s1 == IF n.cur # Null /\ empty(n.cur[1])
              THEN [s EXCEPT !.data[tid].cur = Null,
                             !.heap = deallocate(@, n.cur[1])]
              ELSE s
      pc1 == popChunk(s1)
      s2 == IF s1.data[tid].cur # Null THEN s1
            ELSE IF s1.data[tid].next # Null
              THEN [s1 EXCEPT !.data[tid].cur = s1.data[tid].next,
                              !.data[tid].next = Null]
            ELSE IF pc1.r # Null THEN [pc1.s EXCEPT !.data[tid].cur = pc1.r]
            ELSE s1
  IN  IF s2.data[tid].cur = Null \/ empty(s2.data[tid].cur[1]) THEN None(s2)
      ELSE Got(Head(s2.data[tid].cur[1].ring),
               [s2 EXCEPT !.data[tid].cur[1].ring = Tail(@)])

\* ChunkedFIFO::pop
ChunkedFIFO_pop(s, tid) ==
  LET n == s.data[tid]
      s1 == IF n.cur # Null /\ empty(n.cur[1])
              THEN [s EXCEPT !.data[tid].cur = Null,
                             !.heap = deallocate(@, n.cur[1])]
              ELSE s
      pc1 == popChunk(s1)
      s2 == IF s1.data[tid].cur # Null THEN s1
            ELSE IF pc1.r # Null THEN [pc1.s EXCEPT !.data[tid].cur = pc1.r]
            ELSE [s1 EXCEPT !.data[tid].cur = s1.data[tid].next,
                            !.data[tid].next = Null]
  IN  IF s2.data[tid].cur = Null \/ empty(s2.data[tid].cur[1]) THEN None(s2)
      ELSE Got(Head(s2.data[tid].cur[1].ring),
               [s2 EXCEPT !.data[tid].cur[1].ring = Tail(@)])

\* ChunkedFIFO::empty: ok is the answer
ChunkedFIFO_empty(s, tid) ==
  LET n == s.data[tid]
  IN  IF n.cur # Null /\ ~empty(n.cur[1]) THEN None(s)
      ELSE IF n.next # Null /\ ~empty(n.next[1]) THEN None(s)
      ELSE IF s.head = <<>> THEN None(s)
      ELSE [None(s) EXCEPT !.ok = TRUE]

\* ChunkedFIFO::fill_initial: push every value, then hand n.next to the
\* shared list (pushChunk of a null pointer leaves the list as it was)
RECURSIVE pushAll(_, _, _)
pushAll(s, tid, q) ==
  IF q = <<>> THEN s ELSE pushAll(ChunkedFIFO_push(s, tid, Head(q)), tid, Tail(q))
ChunkedFIFO_fill_initial(s, tid, q) ==
  LET s1 == pushAll(s, tid, q)
      n == s1.data[tid]
  IN  IF n.next # Null
        THEN [pushChunk(s1, n.next[1]) EXCEPT !.data[tid].next = Null]
        ELSE s1

\* ~ChunkedFIFO: the first i slots of data give back their next and cur
RECURSIVE deleteSlots(_, _)
deleteSlots(s, i) ==
  IF i = 0 THEN s
  ELSE LET s0 == deleteSlots(s, i - 1)
           r  == s0.data[i - 1]
           s1 == IF r.next # Null
                   THEN [s0 EXCEPT !.data[i - 1].next = Null,
                                   !.heap = deallocate(@, r.next[1])]
                   ELSE s0
       IN  IF r.cur # Null
             THEN [s1 EXCEPT !.data[i - 1].cur = Null,
                             !.heap = deallocate(@, r.cur[1])]
             ELSE s1
ChunkedFIFO_delete(s) == deleteSlots(s, activeThreads)

\* the Indexer: a value is its own index
I(v) == v
Min(a, b) == IF a < b THEN a ELSE b

\* OrderedByIntegerMetric over FIFO buckets: data[0 .. size - 1] and the
\* per-thread cursor
size == OBIMRange + 1
OBIM_new ==
  [data |-> [i \in 0 .. size - 1 |-> FIFO_new], cursor |-> [t \in Workers |-> 0]]
\* a push that does not clamp the index to the last bucket
OBIM_pushWrap(s, tid, v) ==
  LET index == I(v) % size
  IN  [s EXCEPT !.data[index] = FIFO_push(@, v),
                !.cursor[tid] = IF @ > index THEN index ELSE @]
\* a push that leaves the cursor where it was
OBIM_pushKeep(s, tid, v) ==
  LET index == Min(I(v), size - 1)
  IN  [s EXCEPT !.data[index] = FIFO_push(@, v)]
OBIM_push(s, tid, v) ==
  LET index == Min(I(v), size - 1)
  IN  [s EXCEPT !.data[index] = FIFO_push(@, v),
                !.cursor[tid] = IF @ > index THEN index ELSE @]
\* a scan that does not move the cursor to the bucket it took from
RECURSIVE OBIM_scanKeep(_, _, _)
OBIM_scanKeep(s, tid, i) ==
  IF i >= size THEN None([s EXCEPT !.cursor[tid] = 0])
  ELSE LET r == FIFO_pop(s.data[i])
       IN  IF r.ok THEN Got(r.val, [s EXCEPT !.data[i] = r.s])
           ELSE OBIM_scanKeep([s EXCEPT !.data[i] = r.s], tid, i + 1)

\* for (cur = 0; cur < size; ++cur), from cur = i on; cur = 0 after the loop
RECURSIVE OBIM_scan(_, _, _)
OBIM_scan(s, tid, i) ==
  IF i >= size THEN None([s EXCEPT !.cursor[tid] = 0])
  ELSE LET r == FIFO_pop(s.data[i])
       IN  IF r.ok THEN Got(r.val, [s EXCEPT !.data[i] = r.s, !.cursor[tid] = i])
           ELSE OBIM_scan([s EXCEPT !.data[i] = r.s], tid, i + 1)
OBIM_pop(s, tid) ==
  LET cur == s.cursor[tid]
      r == FIFO_pop(s.data[cur])
  IN  IF r.ok THEN Got(r.val, [s EXCEPT !.data[cur] = r.s])
      ELSE OBIM_scan([s EXCEPT !.data[cur] = r.s], tid, 0)

\* LogOrderByIntegerMetric: sizeof(unsigned int) * 8 + 1 buckets
WordBits == 32
LogOBIM_num == WordBits + 1
RECURSIVE BitLen(_)
BitLen(i) == IF i = 0 THEN 0 ELSE 1 + BitLen(i \div 2)
clz(i) == WordBits - BitLen(i)
getBin(i) == IF i = 0 THEN 0 ELSE WordBits - clz(i)
LogOBIM_new ==
  [data |-> [i \in 0 .. LogOBIM_num - 1 |-> FIFO_new], cursor |-> [t \in Workers |-> 0]]
LogOBIM_push(s, tid, v) == [s EXCEPT !.data[getBin(I(v))] = FIFO_push(@, v)]
RECURSIVE LogOBIM_scan(_, _, _)
LogOBIM_scan(s, tid, i) ==
  IF i >= LogOBIM_num THEN None([s EXCEPT !.cursor[tid] = 0])
  ELSE LET r == FIFO_pop(s.data[i])
       IN  IF r.ok THEN Got(r.val, [s EXCEPT !.data[i] = r.s, !.cursor[tid] = i])
           ELSE LogOBIM_scan([s EXCEPT !.data[i] = r.s], tid, i + 1)
LogOBIM_pop(s, tid) ==
  LET cur == s.cursor[tid]
      r == FIFO_pop(s.data[cur])
  IN  IF r.ok THEN Got(r.val, [s EXCEPT !.data[cur] = r.s])
      ELSE LogOBIM_scan([s EXCEPT !.data[cur] = r.s], tid, 0)

\* LocalQueues over FIFO: a local queue per thread and the global queue
LocalQueues_new == [local |-> [t \in Workers |-> FIFO_new], global |-> FIFO_new]
LocalQueues_push(s, tid, v) == [s EXCEPT !.local[tid] = FIFO_push(@, v)]
LocalQueues_aborted(s, tid, v) == [s EXCEPT !.global = FIFO_push(@, v)]
\* fillInitial: while (begin != end) global.push(*begin++)
RECURSIVE LocalQueues_fillInitial(_, _)
LocalQueues_fillInitial(s, q) ==
  IF q = <<>> THEN s
  ELSE LocalQueues_fillInitial([s EXCEPT !.global = FIFO_push(@, Head(q))], Tail(q))
\* a pop that asks the global queue first
LocalQueues_popGlobalFirst(s, tid) ==
  LET g == FIFO_pop(s.global)
      r == FIFO_pop(s.local[tid])
  IN  IF g.ok THEN Got(g.val, [s EXCEPT !.global = g.s])
      ELSE IF r.ok THEN Got(r.val, [s EXCEPT !.local[tid] = r.s, !.global = g.s])
      ELSE None([s EXCEPT !.local[tid] = r.s, !.global = g.s])
LocalQueues_pop(s, tid) ==
  LET r == FIFO_pop(s.local[tid])
      g == FIFO_pop(s.global)
  IN  IF r.ok THEN Got(r.val, [s EXCEPT !.local[tid] = r.s])
      ELSE IF g.ok THEN Got(g.val, [s EXCEPT !.local[tid] = r.s, !.global = g.s])
      ELSE None([s EXCEPT !.local[tid] = r.s, !.global = g.s])

\* StealingLocalWL over FIFO: one queue per thread
StealingLocalWL_new == [data |-> [t \in Workers |-> FIFO_new]]
StealingLocalWL_push(s, tid, v) == [s EXCEPT !.data[tid] = FIFO_push(@, v)]
\* StealingLocalWL::empty: data.get().empty()
StealingLocalWL_empty(s, tid) ==
  LET r == FIFO_empty(s.data[tid])
  IN  [ok |-> r.ok, val |-> 0, s |-> [s EXCEPT !.data[tid] = r.s]]
StealingLocalWL_pop(s, tid) ==
  LET r == FIFO_pop(s.data[tid])
      s1 == [s EXCEPT !.data[tid] = r.s]
      nx == getNext(tid)
      g == FIFO_pop(s1.data[nx])
  IN  IF r.ok THEN Got(r.val, s1)
      ELSE IF g.ok THEN Got(g.val, [s1 EXCEPT !.data[nx] = g.s])
      ELSE None([s1 EXCEPT !.data[nx] = g.s])

(* ------------------------ a worklist on its own ------------------------ *)
Kinds == {"PriQueue", "LIFO", "sFIFO", "FIFO", "ChunkedFIFO",
          "OrderedByIntegerMetric", "LogOrderByIntegerMetric", "LocalQueues",
          "StealingLocalWL"}

\* the object after its default constructor
New(k) ==
  CASE k \in {"PriQueue", "LIFO", "sFIFO"} -> <<>>
    [] k = "FIFO" -> FIFO_new
    [] k = "ChunkedFIFO" -> ChunkedFIFO_new
    [] k = "OrderedByIntegerMetric" -> OBIM_new
    [] k = "LogOrderByIntegerMetric" -> LogOBIM_new
    [] k = "LocalQueues" -> LocalQueues_new
    [] k = "StealingLocalWL" -> StealingLocalWL_new

\* the object after thread tid has called push(v)
Push(k, s, tid, v) ==
  CASE k = "PriQueue" -> PriQueue_push(s, v)
    [] k = "LIFO" -> LIFO_push(s, v)
    [] k = "sFIFO" -> sFIFO_push(s, v)
    [] k = "FIFO" -> FIFO_push(s, v)
    [] k = "ChunkedFIFO" -> ChunkedFIFO_push(s, tid, v)
    [] k = "OrderedByIntegerMetric" -> OBIM_push(s, tid, v)
    [] k = "LogOrderByIntegerMetric" -> LogOBIM_push(s, tid, v)
    [] k = "LocalQueues" -> LocalQueues_push(s, tid, v)
    [] k = "StealingLocalWL" -> StealingLocalWL_push(s, tid, v)

\* what pop() returns to thread tid
Pop(k, s, tid) ==
  CASE k = "PriQueue" -> PriQueue_pop(s)
    [] k = "LIFO" -> LIFO_pop(s)
    [] k = "sFIFO" -> sFIFO_pop(s)
    [] k = "FIFO" -> FIFO_pop(s)
    [] k = "ChunkedFIFO" -> ChunkedFIFO_pop(s, tid)
    [] k = "OrderedByIntegerMetric" -> OBIM_pop(s, tid)
    [] k = "LogOrderByIntegerMetric" -> LogOBIM_pop(s, tid)
    [] k = "LocalQueues" -> LocalQueues_pop(s, tid)
    [] k = "StealingLocalWL" -> StealingLocalWL_pop(s, tid)

\* what empty() returns to thread tid, and the object it leaves
Empty(k, s, tid) ==
  CASE k = "ChunkedFIFO" -> ChunkedFIFO_empty(s, tid)
    [] k = "StealingLocalWL" -> StealingLocalWL_empty(s, tid)

\* the object after thread tid has seeded it with the range q
Fill(k, s, tid, q) ==
  CASE k = "ChunkedFIFO" -> ChunkedFIFO_fill_initial(s, tid, q)
    [] k = "LocalQueues" -> LocalQueues_fillInitial(s, q)

\* the ranges fill_initial is called with
Fills == UNION {[1 .. n -> Vals] : n \in 0 .. MaxFill}
RECURSIVE CountIn(_, _)
CountIn(q, v) ==
  IF q = <<>> THEN 0 ELSE (IF Head(q) = v THEN 1 ELSE 0) + CountIn(Tail(q), v)
BagOfSeq(q) == [v \in Vals |-> CountIn(q, v)]

\* a pool of two threads: thread 0 pushes, thread popper pops
InitWorklist ==
  /\ activeThreads = 2
  /\ perSocket = 1
  /\ queues = [t \in Threads |-> <<>>]
  /\ last = NoCall
  /\ ExecutorOff
  /\ kind \in Kinds
  /\ popper \in 0 .. 1
  /\ ws = New(kind)
  /\ pushed = NoBag
  /\ popped = <<>>
  /\ popFailed = FALSE
  /\ mixed = FALSE
  /\ filled = FALSE
  /\ probe = NoProbe
  /\ call = "none"
  /\ hist = NoHist
  /\ th = NoCalls

NPushed == SumTo(pushed, MaxVal)

\* thread 0 calls push(v)
pushCall(v) ==
  /\ NPushed < MaxPush
  /\ ws' = Push(kind, ws, 0, v)
  /\ pushed' = [pushed EXCEPT ![v] = @ + 1]
  /\ popFailed' = FALSE
  /\ mixed' = (mixed \/ popFailed \/ popped # <<>>)
  /\ probe' = NoProbe
  /\ call' = "push"
  /\ UNCHANGED <<restvars, kind, popper, popped, filled, th, hist>>

\* thread 0 calls aborted(v), which is push(v) in every class but LocalQueues
abortedCall(v) ==
  /\ kind = "LocalQueues"
  /\ NPushed < MaxPush
  /\ ws' = LocalQueues_aborted(ws, 0, v)
  /\ pushed' = [pushed EXCEPT ![v] = @ + 1]
  /\ popFailed' = FALSE
  /\ mixed' = (mixed \/ popFailed \/ popped # <<>>)
  /\ probe' = NoProbe
  /\ call' = "aborted"
  /\ UNCHANGED <<restvars, kind, popper, popped, filled, th, hist>>

\* thread popper calls pop()
popCall ==
  /\ LET r == Pop(kind, ws, popper)
     IN  /\ ws' = r.s
         /\ popped' = IF r.ok THEN Append(popped, r.val) ELSE popped
         /\ popFailed' = ~r.ok
  /\ probe' = NoProbe
  /\ call' = "pop"
  /\ UNCHANGED <<restvars, kind, popper, pushed, mixed, filled, th, hist>>

\* thread 0 seeds the new object with fill_initial(q.begin(), q.end())
fillCall(q) ==
  /\ kind \in {"ChunkedFIFO", "LocalQueues"}
  /\ NPushed = 0 /\ popped = <<>> /\ ~popFailed /\ ~filled /\ probe = NoProbe
  /\ ws' = Fill(kind, ws, 0, q)
  /\ pushed' = BagOfSeq(q)
  /\ filled' = TRUE
  /\ call' = "fill"
  /\ UNCHANGED <<restvars, kind, popper, popped, popFailed, mixed, probe, th, hist>>

\* thread t calls empty()
emptyCall(t) ==
  /\ kind \in {"ChunkedFIFO", "StealingLocalWL"}
  /\ LET r == Empty(kind, ws, t)
     IN  /\ ws' = r.s
         /\ probe' = [tid |-> t, ret |-> r.ok]
  /\ call' = "empty"
  /\ UNCHANGED <<restvars, kind, popper, pushed, popped, popFailed, mixed, filled, th, hist>>

NextWorklist ==
  \/ \E v \in Vals : pushCall(v)
  \/ \E v \in Vals : abortedCall(v)
  \/ popCall
  \/ \E q \in Fills : fillCall(q)
  \/ \E t \in Workers : emptyCall(t)

SpecWorklist == InitWorklist /\ [][NextWorklist]_vars

(* ------------ LogOrderByIntegerMetric over all unsigned indices ---------- *)
\* an unsigned int of WordBits bits, kept as its two halves
HalfBits == WordBits \div 2
HalfMax == 2 ^ HalfBits - 1
Halves == {0, HalfMax} \cup {2 ^ k : k \in 0 .. HalfBits - 1}
                      \cup {2 ^ k - 1 : k \in 1 .. HalfBits - 1}
Unsigneds ==
  {[hi |-> 0, lo |-> l] : l \in Halves}
    \cup {[hi |-> h, lo |-> l] : h \in Halves \ {0}, l \in {0, 1, HalfMax}}
\* __builtin_clz(u) for u # 0
clzU(u) == IF u.hi # 0 THEN HalfBits - BitLen(u.hi) ELSE WordBits - BitLen(u.lo)
\* a bin that is the position of the highest bit, counted from 0
getBinLow(u) == IF u.hi = 0 /\ u.lo = 0 THEN 0 ELSE WordBits - clzU(u) - 1
\* LogOrderByIntegerMetric::getBin
getBinU(u) == IF u.hi = 0 /\ u.lo = 0 THEN 0 ELSE WordBits - clzU(u)
\* push(val) with the Indexer that returns val
LogOBIM_pushU(s, tid, u) == [s EXCEPT !.data[getBinU(u)] = FIFO_push(@, u)]

\* thread 0 is about to push two values
InitLogBin ==
  /\ activeThreads = 2
  /\ perSocket = 1
  /\ queues = [t \in Threads |-> <<>>]
  /\ last = NoCall
  /\ ExecutorOff
  /\ kind = "LogOrderByIntegerMetric, unsigned"
  /\ popper = 0
  /\ ws = LogOBIM_new
  /\ pushed = NoBag
  /\ popped = <<>>
  /\ popFailed = FALSE
  /\ mixed = FALSE
  /\ filled = FALSE
  /\ probe = NoProbe
  /\ call = "none"
  /\ hist = NoHist
  /\ \E u, w \in Unsigneds :
       th = [t \in Threads |-> IF t = 0 THEN [pc |-> "two", first |-> u, second |-> w]
                                        ELSE Idle]

\* thread 0 calls push(first)
logPushFirst ==
  /\ th[0].pc = "two"
  /\ ws' = LogOBIM_pushU(ws, 0, th[0].first)
  /\ th' = [th EXCEPT ![0].pc = "one"]
  /\ UNCHANGED <<restvars, kind, call, popper, pushed, popped, popFailed, mixed, filled, probe, hist>>

\* thread 0 calls push(second)
logPushSecond ==
  /\ th[0].pc = "one"
  /\ ws' = LogOBIM_pushU(ws, 0, th[0].second)
  /\ th' = [th EXCEPT ![0].pc = "idle"]
  /\ UNCHANGED <<restvars, kind, call, popper, pushed, popped, popFailed, mixed, filled, probe, hist>>

NextLogBin == logPushFirst \/ logPushSecond

SpecLogBin == InitLogBin /\ [][NextLogBin]_vars

(* ------------------ FIFO called by several threads at once -------------- *)
\* chunks[c] is the chunk with id c: its ring, its next pointer (0 is null)
\* with the lock of that PtrLock, and whether the heap has it back; head and
\* tail are the two PtrLocks of the FIFO
ChunkIds == 1 .. MaxChunks
NoChunk == [ring |-> <<>>, next |-> 0, lock |-> NoThread, freed |-> FALSE]
FIFOc_new ==
  [chunks |-> [c \in ChunkIds |-> NoChunk],
   allocs |-> 1,
   head |-> [ptr |-> 1, lock |-> NoThread],
   tail |-> [ptr |-> 1, lock |-> NoThread]]

\* uaf: a chunk was read or written after deallocate; race: a ring was
\* accessed by a thread that did not hold the chunk's lock; lost: a chunk was
\* given back with items in its ring
FIFO_hist == [uaf |-> FALSE, race |-> FALSE, lost |-> FALSE]

InitFIFO ==
  /\ activeThreads = MaxThreads
  /\ perSocket = 1
  /\ queues = [t \in Threads |-> <<>>]
  /\ last = NoCall
  /\ ExecutorOff
  /\ kind = "FIFO, concurrent"
  /\ popper = 0
  /\ ws = FIFOc_new
  /\ pushed = NoBag
  /\ popped = <<>>
  /\ popFailed = FALSE
  /\ mixed = FALSE
  /\ filled = FALSE
  /\ probe = NoProbe
  /\ call = "none"
  /\ hist = FIFO_hist
  /\ th = [t \in Threads |-> Idle]

\* thread t reads or writes chunk c; ring: it is the ring it accesses
Touch(t, c, ring) ==
  [hist EXCEPT !.uaf = @ \/ ws.chunks[c].freed,
               !.race = @ \/ (ring /\ ws.chunks[c].lock # t)]
fifovars == <<restvars, kind, popper, popFailed, mixed, filled, probe, call>>
\* ->next.lock() goes on only when no thread holds the lock of chunk c
nextLockIgnored(c) == TRUE
nextLockFree(c) == ws.chunks[c].lock = NoThread

\* push(val): tail.lock()
FIFO_pushLockTail(t, v) ==
  /\ th[t].pc = "idle" /\ pushed[v] = 0
  /\ ws.tail.lock = NoThread
  /\ ws' = [ws EXCEPT !.tail.lock = t]
  /\ th' = [th EXCEPT ![t] = [pc |-> "p2", val |-> v]]
  /\ pushed' = [pushed EXCEPT ![v] = 1]
  /\ UNCHANGED <<fifovars, popped, hist>>

\* tail.getValue()->next.lock()
FIFO_pushLockNext(t) ==
  /\ th[t].pc = "p2"
  /\ nextLockFree(ws.tail.ptr)
  /\ ws' = [ws EXCEPT !.chunks[ws.tail.ptr].lock = t]
  /\ hist' = Touch(t, ws.tail.ptr, FALSE)
  /\ th' = [th EXCEPT ![t].pc = "p3"]
  /\ UNCHANGED <<fifovars, pushed, popped>>

\* tail.getValue()->push_back(val), and when the ring is full the new chunk:
\* nc->push_back(val); nc->next.lock()
FIFO_pushBack(t) ==
  /\ th[t].pc = "p3"
  /\ LET T == ws.tail.ptr
         nc == ws.allocs + 1
     IN  IF Len(ws.chunks[T].ring) < ChunkSize
           THEN /\ ws' = [ws EXCEPT !.chunks[T].ring = Append(@, th[t].val)]
                /\ th' = [th EXCEPT ![t].pc = "p4"]
           ELSE /\ ws' = [ws EXCEPT !.chunks[nc] = [NoChunk EXCEPT !.ring = <<th[t].val>>,
                                                                     !.lock = t],
                                    !.allocs = nc]
                /\ th' = [th EXCEPT ![t] = [pc |-> "p6", val |-> th[t].val, nc |-> nc]]
  /\ hist' = Touch(t, ws.tail.ptr, TRUE)
  /\ UNCHANGED <<fifovars, pushed, popped>>

\* tail.getValue()->next.unlock()
FIFO_pushUnlockNext(t) ==
  /\ th[t].pc = "p4"
  /\ ws' = [ws EXCEPT !.chunks[ws.tail.ptr].lock = NoThread]
  /\ hist' = Touch(t, ws.tail.ptr, FALSE)
  /\ th' = [th EXCEPT ![t].pc = "p5"]
  /\ UNCHANGED <<fifovars, pushed, popped>>

\* tail.unlock(); return true
FIFO_pushUnlockTail(t) ==
  /\ th[t].pc = "p5"
  /\ ws' = [ws EXCEPT !.tail.lock = NoThread]
  /\ th' = [th EXCEPT ![t] = Idle]
  /\ UNCHANGED <<fifovars, pushed, popped, hist>>

\* tail.getValue()->next.unlock_and_set(nc)
FIFO_pushLink(t) ==
  /\ th[t].pc = "p6"
  /\ ws' = [ws EXCEPT !.chunks[ws.tail.ptr].next = th[t].nc,
                      !.chunks[ws.tail.ptr].lock = NoThread]
  /\ hist' = Touch(t, ws.tail.ptr, FALSE)
  /\ th' = [th EXCEPT ![t].pc = "p7"]
  /\ UNCHANGED <<fifovars, pushed, popped>>

\* nc->next.unlock()
FIFO_pushUnlockNew(t) ==
  /\ th[t].pc = "p7"
  /\ ws' = [ws EXCEPT !.chunks[th[t].nc].lock = NoThread]
  /\ hist' = Touch(t, th[t].nc, FALSE)
  /\ th' = [th EXCEPT ![t].pc = "p8"]
  /\ UNCHANGED <<fifovars, pushed, popped>>

\* tail.unlock_and_set(nc); return true
FIFO_pushSetTail(t) ==
  /\ th[t].pc = "p8"
  /\ ws' = [ws EXCEPT !.tail = [ptr |-> th[t].nc, lock |-> NoThread]]
  /\ th' = [th EXCEPT ![t] = Idle]
  /\ UNCHANGED <<fifovars, pushed, popped, hist>>

\* pop() or empty(): head.lock()
FIFO_popLockHead(t, op) ==
  /\ th[t].pc = "idle"
  /\ ws.head.lock = NoThread
  /\ ws' = [ws EXCEPT !.head.lock = t]
  /\ th' = [th EXCEPT ![t] = [pc |-> "q2", op |-> op, old |-> 0, ok |-> FALSE, val |-> 0]]
  /\ UNCHANGED <<fifovars, pushed, popped, hist>>

\* head.getValue()->next.lock()
FIFO_popLockNext(t) ==
  /\ th[t].pc = "q2"
  /\ nextLockFree(ws.head.ptr)
  /\ ws' = [ws EXCEPT !.chunks[ws.head.ptr].lock = t]
  /\ hist' = Touch(t, ws.head.ptr, FALSE)
  /\ th' = [th EXCEPT ![t].pc = "q3"]
  /\ UNCHANGED <<fifovars, pushed, popped>>

\* popEmptyChunksLocked: while (head->empty() && head->next.getValue())
FIFO_popTest(t) ==
  /\ th[t].pc = "q3"
  /\ LET H == ws.head.ptr
     IN  th' = IF ws.chunks[H].ring = <<>> /\ ws.chunks[H].next # 0
                 THEN [th EXCEPT ![t].pc = "q4", ![t].old = H]
                 ELSE [th EXCEPT ![t].pc = "q6"]
  /\ hist' = Touch(t, ws.head.ptr, TRUE)
  /\ UNCHANGED <<fifovars, ws, pushed, popped>>

\* old->next.getValue()->next.lock()
FIFO_popLockSucc(t) ==
  /\ th[t].pc = "q4"
  /\ LET N == ws.chunks[th[t].old].next
     IN  /\ nextLockFree(N)
         /\ ws' = [ws EXCEPT !.chunks[N].lock = t]
         /\ hist' = [Touch(t, N, FALSE) EXCEPT !.uaf = @ \/ ws.chunks[th[t].old].freed]
  /\ th' = [th EXCEPT ![t].pc = "q5"]
  /\ UNCHANGED <<fifovars, pushed, popped>>

\* head.setValue(old->next.getValue()); old->next.unlock()
FIFO_popUnlink(t) ==
  /\ th[t].pc = "q5"
  /\ ws' = [ws EXCEPT !.head.ptr = ws.chunks[th[t].old].next,
                      !.chunks[th[t].old].lock = NoThread]
  /\ hist' = Touch(t, th[t].old, FALSE)
  /\ th' = [th EXCEPT ![t].pc = "q5f"]
  /\ UNCHANGED <<fifovars, pushed, popped>>

\* old->~Chunk(); heap.deallocate(old); and round the loop
FIFO_popFree(t) ==
  /\ th[t].pc = "q5f"
  /\ ws' = [ws EXCEPT !.chunks[th[t].old].freed = TRUE]
  /\ hist' = [Touch(t, th[t].old, FALSE) EXCEPT
                 !.lost = @ \/ ws.chunks[th[t].old].ring # <<>>]
  /\ th' = [th EXCEPT ![t].pc = "q3"]
  /\ UNCHANGED <<fifovars, pushed, popped>>

\* retval = head.getValue()->pop_front(), or head.getValue()->empty()
FIFO_popFront(t) ==
  /\ th[t].pc = "q6"
  /\ LET H == ws.head.ptr
         r == ws.chunks[H].ring
     IN  IF th[t].op = "pop" /\ r # <<>>
           THEN /\ ws' = [ws EXCEPT !.chunks[H].ring = Tail(@)]
                /\ th' = [th EXCEPT ![t].pc = "q7", ![t].ok = TRUE, ![t].val = Head(r)]
           ELSE /\ th' = [th EXCEPT ![t].pc = "q7",
                                     ![t].ok = (th[t].op = "empty" /\ r = <<>>)]
                /\ UNCHANGED ws
  /\ hist' = Touch(t, ws.head.ptr, TRUE)
  /\ UNCHANGED <<fifovars, pushed, popped>>

\* head.getValue()->next.unlock()
FIFO_popUnlockNext(t) ==
  /\ th[t].pc = "q7"
  /\ ws' = [ws EXCEPT !.chunks[ws.head.ptr].lock = NoThread]
  /\ hist' = Touch(t, ws.head.ptr, FALSE)
  /\ th' = [th EXCEPT ![t].pc = "q8"]
  /\ UNCHANGED <<fifovars, pushed, popped>>

\* head.unlock(); return retval
FIFO_popUnlockHead(t) ==
  /\ th[t].pc = "q8"
  /\ ws' = [ws EXCEPT !.head.lock = NoThread]
  /\ popped' = IF th[t].op = "pop" /\ th[t].ok THEN Append(popped, th[t].val) ELSE popped
  /\ th' = [th EXCEPT ![t] = Idle]
  /\ UNCHANGED <<fifovars, pushed, hist>>

\* the steps of a call that has begun
FIFO_step(t) ==
  \/ FIFO_pushLockNext(t) \/ FIFO_pushBack(t) \/ FIFO_pushUnlockNext(t)
  \/ FIFO_pushUnlockTail(t) \/ FIFO_pushLink(t) \/ FIFO_pushUnlockNew(t)
  \/ FIFO_pushSetTail(t)
  \/ FIFO_popLockNext(t) \/ FIFO_popTest(t) \/ FIFO_popLockSucc(t)
  \/ FIFO_popUnlink(t) \/ FIFO_popFree(t) \/ FIFO_popFront(t)
  \/ FIFO_popUnlockNext(t) \/ FIFO_popUnlockHead(t)

NextFIFO ==
  \/ \E t \in Workers, v \in Vals : FIFO_pushLockTail(t, v)
  \/ \E t \in Workers : FIFO_pushLockNext(t)
  \/ \E t \in Workers : FIFO_pushBack(t)
  \/ \E t \in Workers : FIFO_pushUnlockNext(t)
  \/ \E t \in Workers : FIFO_pushUnlockTail(t)
  \/ \E t \in Workers : FIFO_pushLink(t)
  \/ \E t \in Workers : FIFO_pushUnlockNew(t)
  \/ \E t \in Workers : FIFO_pushSetTail(t)
  \/ \E t \in Workers, op \in {"pop", "empty"} : FIFO_popLockHead(t, op)
  \/ \E t \in Workers : FIFO_popLockNext(t)
  \/ \E t \in Workers : FIFO_popTest(t)
  \/ \E t \in Workers : FIFO_popLockSucc(t)
  \/ \E t \in Workers : FIFO_popUnlink(t)
  \/ \E t \in Workers : FIFO_popFree(t)
  \/ \E t \in Workers : FIFO_popFront(t)
  \/ \E t \in Workers : FIFO_popUnlockNext(t)
  \/ \E t \in Workers : FIFO_popUnlockHead(t)

SpecFIFO == InitFIFO /\ [][NextFIFO]_vars

(* ---------------- subgraph search (Ullmann, VF2) in for_each ------------ *)
QNodes == 0 .. (NQ - 1)
DNodes == 0 .. (ND - 1)
Labels == 0 .. (NumLabels - 1)
QPairs == {e \in QNodes \X QNodes : e[1] # e[2]}
DPairs == {e \in DNodes \X DNodes : e[1] # e[2]}
undirected == FALSE
NodeMatch(q, d) == [nQ |-> q, nD |-> d]

\* iteration of a std::set or of a sorted vector: ascending
RECURSIVE Ascending(_)
Ascending(S) ==
  IF S = {} THEN <<>>
  ELSE LET x == CHOOSE y \in S : \A z \in S : y <= z
       IN  <<x>> \o Ascending(S \ {x})

\* findEdgeSortedByDst(a, b) != edge_end(a); the destinations of edges(n) and
\* of in_edges(n)
hasEdge(g, a, b) == <<a, b>> \in g
edgeDsts(g, n) == {e[2] : e \in {f \in g : f[1] = n}}
inEdgeDsts(g, n) == {e[1] : e \in {f \in g : f[2] = n}}

\* FilterCandidatesInternal::operator(): dQ.candidate of query node nQ
candidate(s, nQ) ==
  {nD \in DNodes : /\ s.labelQ[nQ] = s.labelD[nD]
                   /\ ~(hasEdge(s.gQ, nQ, nQ) /\ ~hasEdge(s.gD, nD, nD))}

NoState == [qFrontier |-> {}, qMatched |-> {}, dFrontier |-> {}, dMatched |-> {}]

countNeighbors(g, n, sMatched) == Cardinality(edgeDsts(g, n) \ sMatched)
countInNeighbors(g, n, sMatched) == Cardinality(inEdgeDsts(g, n) \ sMatched)

\* LocalState::nextQueryNode
nextQueryNode(state, matching) ==
  IF state.qFrontier # {}
    THEN CHOOSE q \in state.qFrontier : \A z \in state.qFrontier : q <= z
    ELSE LET un == {nQ \in QNodes : \A i \in DOMAIN matching : matching[i].nQ # nQ}
         IN  CHOOSE q \in un : \A z \in un : q <= z

\* VF2 refineCandidates
VF2_refineCandidates(s, nQuery, state) ==
  LET ok(ii) ==
        /\ ii \in candidate(s, nQuery)
        /\ Cardinality(edgeDsts(s.gD, ii)) >= Cardinality(edgeDsts(s.gQ, nQuery))
        /\ countNeighbors(s.gD, ii, state.dMatched)
             >= countNeighbors(s.gQ, nQuery, state.qMatched)
        /\ \/ undirected
           \/ /\ Cardinality(inEdgeDsts(s.gD, ii)) >= Cardinality(inEdgeDsts(s.gQ, nQuery))
              /\ countInNeighbors(s.gD, ii, state.dMatched)
                   >= countInNeighbors(s.gQ, nQuery, state.qMatched)
  IN  Ascending({ii \in state.dFrontier : ok(ii)})

\* Ullmann nextQueryNode and refineCandidates
Ullmann_nextQueryNode(matching) == Len(matching)
Ullmann_refineCandidates(s, nQuery) ==
  Ascending({c \in candidate(s, nQuery) :
               /\ Cardinality(edgeDsts(s.gD, c)) >= Cardinality(edgeDsts(s.gQ, nQuery))
               /\ Cardinality(inEdgeDsts(s.gD, c)) >= Cardinality(inEdgeDsts(s.gQ, nQuery))})

isJoinable(s, nD, nQ, matching) ==
  \A i \in DOMAIN matching :
    LET nm == matching[i]
    IN  /\ nD # nm.nD
        /\ ~(hasEdge(s.gQ, nQ, nm.nQ) /\ ~hasEdge(s.gD, nD, nm.nD))
        /\ undirected \/ ~(hasEdge(s.gQ, nm.nQ, nQ) /\ ~hasEdge(s.gD, nm.nD, nD))

\* insertDstFrontier(Tracked) and, for directed graphs, insertInDstFrontier
\* (Tracked): the nodes they look at, and the ones they add to the frontier
nghs(g, n) == edgeDsts(g, n) \cup (IF undirected THEN {} ELSE inEdgeDsts(g, n))
add2Frontier(sMatched, sFrontier, g, n) == (nghs(g, n) \ sMatched) \ sFrontier

\* doSearch, update query state, and restore query state
updateQuery(s, state, nQ) ==
  LET m == state.qMatched \cup {nQ}
      f == state.qFrontier \ {nQ}
  IN  [state EXCEPT !.qMatched = m, !.qFrontier = f \cup add2Frontier(m, f, s.gQ, nQ)]
restoreQuery(state, nQ, qAdd) ==
  [state EXCEPT !.qMatched = @ \ {nQ}, !.qFrontier = (@ \cup {nQ}) \ qAdd]

\* doSearch, update data state, and restore data state
updateData(s, state, r) ==
  LET m == state.dMatched \cup {r}
      f == state.dFrontier \ {r}
  IN  [state EXCEPT !.dMatched = m, !.dFrontier = f \cup add2Frontier(m, f, s.gD, r)]
restoreData(state, r, dAdd) ==
  [state EXCEPT !.dMatched = @ \ {r}, !.dFrontier = (@ \cup {r}) \ dAdd]

\* operator(): the LocalState of a seed
seedState(s, seed) ==
  [qMatched |-> {seed.nQ},
   qFrontier |-> nghs(s.gQ, seed.nQ) \ {seed.nQ},
   dMatched |-> {seed.nD},
   dFrontier |-> nghs(s.gD, seed.nD) \ {seed.nD}]

\* run() and subgraphSearch: currentlyFound.store(0), works holds a seed for
\* each candidate of the first query node, report is empty
Search_new(a, k, q, d, lq, ld) ==
  [algo |-> a, kFound |-> k, gQ |-> q, gD |-> d, labelQ |-> lq, labelD |-> ld,
   works |-> candidate([gQ |-> q, gD |-> d, labelQ |-> lq, labelD |-> ld], 0),
   report |-> {}, appended |-> 0, currentlyFound |-> 0, broke |-> FALSE]

\* how the last call of doSearch of a thread returned, and the LocalState and
\* matching it was entered with
NoBack == [how |-> "none", state |-> NoState, matching |-> <<>>]

InitSearch ==
  /\ activeThreads = 2
  /\ perSocket = 1
  /\ queues = [t \in Threads |-> <<>>]
  /\ last = NoCall
  /\ ExecutorOff
  /\ kind = "search"
  /\ popper = 0
  /\ \E a \in {"ullmann", "vf2"}, k \in 1 .. MaxFound, q \in SUBSET QPairs,
        d \in SUBSET DPairs, lq \in [QNodes -> Labels], ld \in [DNodes -> Labels] :
       /\ ws = Search_new(a, k, q, d, lq, ld)
       /\ \A nQ \in QNodes : candidate(ws, nQ) # {}
  /\ pushed = NoBag
  /\ popped = <<>>
  /\ popFailed = FALSE
  /\ mixed = FALSE
  /\ filled = FALSE
  /\ probe = NoProbe
  /\ call = "none"
  /\ hist = NoHist
  /\ th = [t \in Threads |-> Idle]

searchvars == <<restvars, seqvars, hist>>
Back(how, state, matching) == [how |-> how, state |-> state, matching |-> matching]

\* for_each hands the seed of data node c to thread t: operator() up to its
\* call of doSearch
Search_operator(t, c) ==
  /\ th[t].pc = "idle" /\ ~ws.broke /\ c \in ws.works
  /\ ws' = [ws EXCEPT !.works = @ \ {c}]
  /\ th' = [th EXCEPT ![t] =
       [pc |-> "enter",
        state |-> IF ws.algo = "vf2" THEN seedState(ws, NodeMatch(0, c)) ELSE NoState,
        matching |-> <<NodeMatch(0, c)>>,
        stack |-> <<>>,
        back |-> NoBack]]
  /\ UNCHANGED searchvars

\* doSearch from its entry to the loop over refined
Search_enter(t) ==
  /\ th[t].pc = "enter"
  /\ LET me == th[t]
         nQ == IF ws.algo = "vf2" THEN nextQueryNode(me.state, me.matching)
                                  ELSE Ullmann_nextQueryNode(me.matching)
         refined == IF ws.algo = "vf2" THEN VF2_refineCandidates(ws, nQ, me.state)
                                       ELSE Ullmann_refineCandidates(ws, nQ)
         f == me.state.qFrontier \ {nQ}
         frame == [nQ |-> nQ, refined |-> refined, r |-> 0, dAdd |-> {},
                   qAdd |-> IF ws.algo = "vf2"
                              THEN add2Frontier(me.state.qMatched \cup {nQ}, f, ws.gQ, nQ)
                              ELSE {},
                   state |-> me.state, matching |-> me.matching]
     IN  th' = [th EXCEPT ![t] =
           IF ws.currentlyFound >= ws.kFound
             THEN [me EXCEPT !.pc = "ret", !.back = Back("limit", me.state, me.matching)]
           ELSE IF Len(me.matching) = NQ
             THEN [me EXCEPT !.pc = "report"]
           ELSE [me EXCEPT !.pc = "loop",
                           !.state = IF ws.algo = "vf2" THEN updateQuery(ws, @, nQ) ELSE @,
                           !.stack = Append(@, frame)]]
  /\ UNCHANGED <<searchvars, ws>>

\* report.push_back(matching)
Search_report(t) ==
  /\ th[t].pc = "report"
  /\ ws' = [ws EXCEPT !.report = @ \cup {th[t].matching}, !.appended = @ + 1]
  /\ th' = [th EXCEPT ![t].pc = "count"]
  /\ UNCHANGED searchvars

\* currentlyFound += 1; return
Search_count(t) ==
  /\ th[t].pc = "count"
  /\ ws' = [ws EXCEPT !.currentlyFound = @ + 1]
  /\ th' = [th EXCEPT ![t].pc = "ret",
                       ![t].back = Back("found", th[t].state, th[t].matching)]
  /\ UNCHANGED searchvars

\* for (auto r : refined): the next joinable r and the updates before the
\* recursive call, or the end of the loop, restore query state and return
Search_loop(t) ==
  /\ th[t].pc = "loop"
  /\ LET me == th[t]
         frame == me.stack[Len(me.stack)]
         js == {i \in DOMAIN frame.refined :
                  isJoinable(ws, frame.refined[i], frame.nQ, me.matching)}
         i == CHOOSE j \in js : \A z \in js : j <= z
         r == frame.refined[i]
         f == me.state.dFrontier \ {r}
     IN  th' = [th EXCEPT ![t] =
           IF js = {}
             THEN [me EXCEPT !.pc = "ret",
                             !.state = IF ws.algo = "vf2"
                                         THEN restoreQuery(@, frame.nQ, frame.qAdd) ELSE @,
                             !.stack = SubSeq(@, 1, Len(@) - 1),
                             !.back = Back("end", frame.state, frame.matching)]
             ELSE [me EXCEPT !.pc = "enter",
                             !.matching = Append(@, NodeMatch(frame.nQ, r)),
                             !.state = IF ws.algo = "vf2" THEN updateData(ws, @, r) ELSE @,
                             !.stack[Len(me.stack)] =
                               [frame EXCEPT
                                  !.refined = SubSeq(@, i + 1, Len(@)),
                                  !.r = r,
                                  !.dAdd = IF ws.algo = "vf2"
                                             THEN add2Frontier(me.state.dMatched \cup {r}, f,
                                                               ws.gD, r)
                                             ELSE {}]]]
  /\ UNCHANGED <<searchvars, ws>>

\* back in the loop after the recursive call: the test of currentlyFound, then
\* restore data state and matching.pop_back()
Search_return(t) ==
  /\ th[t].pc = "ret" /\ th[t].stack # <<>>
  /\ LET me == th[t]
         frame == me.stack[Len(me.stack)]
     IN  th' = [th EXCEPT ![t] =
           IF ws.currentlyFound >= ws.kFound
             THEN [me EXCEPT !.stack = SubSeq(@, 1, Len(@) - 1),
                             !.back = Back("limit", frame.state, frame.matching)]
             ELSE [me EXCEPT !.pc = "loop",
                             !.state = IF ws.algo = "vf2"
                                         THEN restoreData(@, frame.r, frame.dAdd) ELSE @,
                             !.matching = SubSeq(@, 1, Len(@) - 1)]]
  /\ UNCHANGED <<searchvars, ws>>

\* operator() after doSearch: breakLoop when the limit is reached
Search_done(t) ==
  /\ th[t].pc = "ret" /\ th[t].stack = <<>>
  /\ ws' = [ws EXCEPT !.broke = @ \/ (ws.currentlyFound >= ws.kFound)]
  /\ th' = [th EXCEPT ![t] = Idle]
  /\ UNCHANGED searchvars

NextSearch ==
  \/ \E t \in Workers, c \in DNodes : Search_operator(t, c)
  \/ \E t \in Workers : Search_enter(t)
  \/ \E t \in Workers : Search_report(t)
  \/ \E t \in Workers : Search_count(t)
  \/ \E t \in Workers : Search_loop(t)
  \/ \E t \in Workers : Search_return(t)
  \/ \E t \in Workers : Search_done(t)

SpecSearch == InitSearch /\ [][NextSearch]_vars

(* --------------------------- the page allocator ------------------------- *)
Pages == 1 .. MaxPages
\* head: the thread has its HeadPtr; free[t]: the pages linked from it;
\* mapped: the pages mmap has handed out
PA_new ==
  [num |-> 0, mapped |-> 0,
   ownerMap |-> [p \in Pages |-> NoThread],
   head |-> [t \in Workers |-> FALSE],
   free |-> [t \in Workers |-> <<>>]]

\* first[p]: the thread whose mmap returned p; inUse: the pages pageAlloc
\* has returned and nobody has passed to pageFree since; ret: the last
\* return of pageAlloc
NoReturn == [tid |-> NoThread, page |-> 0, fresh |-> FALSE]
PA_hist == [first |-> [p \in Pages |-> NoThread], inUse |-> {}, ret |-> NoReturn]

InitPages ==
  /\ activeThreads = 2
  /\ perSocket = 1
  /\ queues = [t \in Threads |-> <<>>]
  /\ last = NoCall
  /\ ExecutorOff
  /\ kind = "pages"
  /\ popper = 0
  /\ ws = PA_new
  /\ pushed = NoBag
  /\ popped = <<>>
  /\ popFailed = FALSE
  /\ mixed = FALSE
  /\ filled = FALSE
  /\ probe = NoProbe
  /\ call = "none"
  /\ hist = PA_hist
  /\ th = [t \in Threads |-> Idle]

\* the pages the calls in progress are still to map
Need(t) ==
  CASE th[t].pc = "os" -> IF th[t].pre = 0 THEN 1 ELSE th[t].pre
    [] th[t].pc \in {"track", "owner", "link"} -> IF th[t].pre = 0 THEN 0 ELSE th[t].pre - 1
    [] OTHER -> 0
Pending == Need(0) + Need(1)
Returned1(t, m, f) == [hist EXCEPT !.inUse = @ \cup {m},
                                  !.ret = [tid |-> t, page |-> m, fresh |-> f]]

\* pageAlloc up to allocFromOS: under the lock of the caller's head, the
\* first page of its free list is unlinked and returned
pageAlloc(t) ==
  /\ th[t].pc = "idle"
  /\ IF ws.head[t] /\ ws.free[t] # <<>>
       THEN /\ ws' = [ws EXCEPT !.free[t] = Tail(@)]
            /\ hist' = Returned1(t, Head(ws.free[t]), FALSE)
            /\ UNCHANGED th
       ELSE /\ ws.mapped + Pending < MaxPages
            /\ th' = [th EXCEPT ![t] = [pc |-> "os", pre |-> 0]]
            /\ UNCHANGED <<ws, hist>>
  /\ UNCHANGED <<restvars, seqvars>>

\* pagePreAlloc(numPages) is called
pagePreAlloc(t, numPages) ==
  /\ th[t].pc = "idle"
  /\ ws.mapped + Pending + numPages <= MaxPages
  /\ th' = [th EXCEPT ![t] = [pc |-> "os", pre |-> numPages]]
  /\ UNCHANGED <<restvars, seqvars, ws, hist>>

\* allocFromOS under allocLock: mmap returns a page nobody has
allocFromOS_mmap(t) ==
  /\ th[t].pc = "os"
  /\ ws' = [ws EXCEPT !.mapped = @ + 1]
  /\ th' = [th EXCEPT ![t] = [pc |-> "track", pre |-> th[t].pre, ptr |-> ws.mapped + 1]]
  /\ hist' = [hist EXCEPT !.first[ws.mapped + 1] = t]
  /\ UNCHANGED <<restvars, seqvars>>

\* allocFromOS under dataLock: the caller's head is made on its first
\* allocation and the page is entered in ownerMap; pageAlloc returns it,
\* pagePreAlloc passes it to pageFree
allocFromOS_track(t) ==
  /\ th[t].pc = "track"
  /\ ws' = [ws EXCEPT !.head[t] = TRUE,
                      !.ownerMap[th[t].ptr] = t,
                      !.num = @ + 1]
  /\ IF th[t].pre = 0
       THEN /\ th' = [th EXCEPT ![t] = Idle]
            /\ hist' = Returned1(t, th[t].ptr, TRUE)
       ELSE /\ th' = [th EXCEPT ![t] = [pc |-> "owner", pre |-> th[t].pre, m |-> th[t].ptr]]
            /\ UNCHANGED hist
  /\ UNCHANGED <<restvars, seqvars>>

\* pageFree(m) is called with a page the caller or another thread got from
\* pageAlloc
pageFree(t, m) ==
  /\ th[t].pc = "idle"
  /\ m \in hist.inUse
  /\ th' = [th EXCEPT ![t] = [pc |-> "owner", pre |-> 0, m |-> m]]
  /\ hist' = [hist EXCEPT !.inUse = @ \ {m}]
  /\ UNCHANGED <<restvars, seqvars, ws>>

\* a pageFree that links the page to the caller's own list
ownerCaller(s, t, m) == t

\* pageFree under dataLock: phead = getPAState().ownerMap[m]
ownerOf(s, t, m) == s.ownerMap[m]

pageFree_owner(t) ==
  /\ th[t].pc = "owner"
  /\ th' = [th EXCEPT ![t] = [pc |-> "link", pre |-> th[t].pre, m |-> th[t].m,
                               phead |-> ownerOf(ws, t, th[t].m)]]
  /\ UNCHANGED <<restvars, seqvars, ws, hist>>

\* pageFree under the lock of phead: the page becomes the first of the list;
\* pagePreAlloc goes on with its next page
pageFree_link(t) ==
  /\ th[t].pc = "link"
  /\ ws' = [ws EXCEPT !.free[th[t].phead] = <<th[t].m>> \o @]
  /\ th' = [th EXCEPT ![t] = IF th[t].pre > 1
                                THEN [pc |-> "os", pre |-> th[t].pre - 1]
                                ELSE Idle]
  /\ UNCHANGED <<restvars, seqvars, hist>>

NextPages ==
  \/ \E t \in Workers : pageAlloc(t)
  \/ \E t \in Workers, n \in 1 .. MaxPre : pagePreAlloc(t, n)
  \/ \E t \in Workers : allocFromOS_mmap(t)
  \/ \E t \in Workers : allocFromOS_track(t)
  \/ \E t \in Workers, m \in Pages : pageFree(t, m)
  \/ \E t \in Workers : pageFree_owner(t)
  \/ \E t \in Workers : pageFree_link(t)

SpecPages == InitPages /\ [][NextPages]_vars

(* ------- OrderedByIntegerMetric called by several threads at once ------- *)
\* the bucket container: FIFO, whose try_pop is pop and waits for the locks,
\* or one of sFIFO, LIFO, PriQueue, whose try_pop gives up when try_lock
\* fails
Containers == {"FIFO", "sFIFO"}

\* data[b] is what bucket b holds, lock[b] the thread inside bucket b
OBIMc_new(c) ==
  [cty |-> c,
   data |-> [b \in 0 .. size - 1 |-> <<>>],
   lock |-> [b \in 0 .. size - 1 |-> NoThread],
   cursor |-> [t \in Workers |-> 0]]

InitOBIM ==
  /\ activeThreads = 2
  /\ perSocket = 1
  /\ queues = [t \in Threads |-> <<>>]
  /\ last = NoCall
  /\ ExecutorOff
  /\ kind = "OrderedByIntegerMetric, concurrent"
  /\ popper = 0
  /\ \E c \in Containers : ws = OBIMc_new(c)
  /\ pushed = NoBag
  /\ popped = <<>>
  /\ popFailed = FALSE
  /\ mixed = FALSE
  /\ filled = FALSE
  /\ probe = NoProbe
  /\ call = "none"
  /\ hist = NoHist
  /\ th = [t \in Threads |-> Idle]

\* the items no pop has taken from the buckets
InBuckets(s) == {s.data[b][i] : <<b, i>> \in {<<c, j>> \in (0 .. size - 1) \X (1 .. MaxVal + 1) :
                                          j <= Len(s.data[c])}}
\* an item leaves its bucket: no call has seen it stay any longer
Unsee(h, v) ==
  [t \in Threads |-> IF h[t].pc \in {"idle", "push"} THEN h[t]
                      ELSE [h[t] EXCEPT !.seen = @ \ {v}]]

\* OrderedByIntegerMetric::push up to data[index].push(val): a FIFO bucket
\* takes the value at once, a locked bucket is entered when its lock is free
OBIM_pushEnter(t, v) ==
  /\ th[t].pc = "idle"
  /\ pushed[v] = 0
  /\ LET index == Min(I(v), size - 1)
     IN  IF ws.cty = "FIFO"
           THEN /\ ws' = [ws EXCEPT !.data[index] = Append(@, v),
                                    !.cursor[t] = IF @ > index THEN index ELSE @]
                /\ pushed' = [pushed EXCEPT ![v] = 1]
                /\ UNCHANGED th
           ELSE /\ ws.lock[index] = NoThread
                /\ ws' = [ws EXCEPT !.lock[index] = t]
                /\ th' = [th EXCEPT ![t] = [pc |-> "push", val |-> v]]
                /\ UNCHANGED pushed
  /\ UNCHANGED <<restvars, kind, call, popper, popped, popFailed, mixed, filled, probe, hist>>

\* wl.push_back(val); unlock(); then the cursor
OBIM_pushLeave(t) ==
  /\ th[t].pc = "push"
  /\ LET v == th[t].val
         index == Min(I(v), size - 1)
     IN  /\ ws' = [ws EXCEPT !.data[index] = Append(@, v),
                             !.lock[index] = NoThread,
                             !.cursor[t] = IF @ > index THEN index ELSE @]
         /\ pushed' = [pushed EXCEPT ![v] = 1]
  /\ th' = [th EXCEPT ![t] = Idle]
  /\ UNCHANGED <<restvars, kind, call, popper, popped, popFailed, mixed, filled, probe, hist>>

\* OrderedByIntegerMetric::pop is called: the first try_pop is on data[cur]
OBIM_popEnter(t) ==
  /\ th[t].pc = "idle"
  /\ th' = [th EXCEPT ![t] = [pc |-> "first", seen |-> InBuckets(ws), held |-> {}]]
  /\ UNCHANGED <<restvars, kind, call, popper, ws, pushed, popped, popFailed, mixed, filled, probe, hist>>

\* a pop that gives up when the cursor bucket gave nothing
afterMissNoScan(s, h, t) == [s |-> [s EXCEPT !.cursor[t] = 0], pc |-> "failed"]

\* where pop goes after try_pop failed on data[cur]: to the scan from
\* bucket 0, to the next bucket, or out of the loop with cur = 0
afterMiss(s, h, t) ==
  IF h[t].pc = "first" THEN [s |-> [s EXCEPT !.cursor[t] = 0], pc |-> "scan"]
  ELSE IF s.cursor[t] + 1 < size
    THEN [s |-> [s EXCEPT !.cursor[t] = @ + 1], pc |-> "scan"]
  ELSE [s |-> [s EXCEPT !.cursor[t] = 0], pc |-> "failed"]

\* PaddedLock::try_lock on the bucket's lock
tryLock(s, b) == s.lock[b] = NoThread

\* ret = data[cur].try_pop() on a FIFO bucket: FIFO::pop
OBIM_tryPopFIFO(t) ==
  /\ th[t].pc \in {"first", "scan"}
  /\ ws.cty = "FIFO"
  /\ LET b == ws.cursor[t]
         m == afterMiss(ws, th, t)
     IN  IF ws.data[b] # <<>>
           THEN /\ ws' = [ws EXCEPT !.data[b] = Tail(@)]
                /\ popped' = Append(popped, Head(ws.data[b]))
                /\ th' = [Unsee(th, Head(ws.data[b])) EXCEPT ![t] = Idle]
           ELSE /\ ws' = m.s
                /\ th' = [th EXCEPT ![t].pc = m.pc]
                /\ UNCHANGED popped
  /\ UNCHANGED <<restvars, kind, call, popper, pushed, popFailed, mixed, filled, probe, hist>>

\* ret = data[cur].try_pop() on a locked bucket, up to try_lock()
OBIM_tryPopLock(t) ==
  /\ th[t].pc \in {"first", "scan"}
  /\ ws.cty # "FIFO"
  /\ LET b == ws.cursor[t]
         m == afterMiss(ws, th, t)
     IN  IF tryLock(ws, b)
           THEN /\ ws' = [ws EXCEPT !.lock[b] = t]
                /\ th' = [th EXCEPT ![t].pc = IF @ = "first" THEN "firstin" ELSE "scanin"]
           ELSE /\ ws' = m.s
                /\ th' = [th EXCEPT ![t].pc = m.pc, ![t].held = @ \cup {b}]
  /\ UNCHANGED <<restvars, kind, call, popper, pushed, popped, popFailed, mixed, filled, probe, hist>>

\* the rest of try_pop, inside the lock: take the front value if there is one
OBIM_tryPopLocked(t) ==
  /\ th[t].pc \in {"firstin", "scanin"}
  /\ LET b == ws.cursor[t]
         out == [th EXCEPT ![t].pc = IF @ = "firstin" THEN "first" ELSE "scan"]
         m == afterMiss([ws EXCEPT !.lock[b] = NoThread], out, t)
     IN  IF ws.data[b] # <<>>
           THEN /\ ws' = [ws EXCEPT !.data[b] = Tail(@), !.lock[b] = NoThread]
                /\ popped' = Append(popped, Head(ws.data[b]))
                /\ th' = [Unsee(th, Head(ws.data[b])) EXCEPT ![t] = Idle]
           ELSE /\ ws' = m.s
                /\ th' = [th EXCEPT ![t].pc = m.pc]
                /\ UNCHANGED popped
  /\ UNCHANGED <<restvars, kind, call, popper, pushed, popFailed, mixed, filled, probe, hist>>

\* ret.first = false; return ret
OBIM_popFail(t) ==
  /\ th[t].pc = "failed"
  /\ th' = [th EXCEPT ![t] = Idle]
  /\ UNCHANGED <<restvars, kind, call, popper, ws, pushed, popped, popFailed, mixed, filled, probe, hist>>

NextOBIM ==
  \/ \E t \in Workers, v \in Vals : OBIM_pushEnter(t, v)
  \/ \E t \in Workers : OBIM_pushLeave(t)
  \/ \E t \in Workers : OBIM_popEnter(t)
  \/ \E t \in Workers : OBIM_tryPopFIFO(t)
  \/ \E t \in Workers : OBIM_tryPopLock(t)
  \/ \E t \in Workers : OBIM_tryPopLocked(t)
  \/ \E t \in Workers : OBIM_popFail(t)

SpecOBIM == InitOBIM /\ [][NextOBIM]_vars


(* ------------------------------- claims -------------------------------- *)
Range(s) == {s[i] : i \in DOMAIN s}
Occ(s, v) == Cardinality({i \in DOMAIN s : s[i] = v})
OccRec(s, v) == Cardinality({i \in DOMAIN s : s[i].val = v})
Running(t) == pc[t] \in {"operate", "commit", "abort"}
Left(t) == pc[t] \in {"finish", "blockedfin", "done"}
AllLeft == \A t \in Workers : Left(t)

InWl(v) == SumTo([t \in Threads |-> Occ(wl[t], v)], MaxThreads - 1)
InAborted(v) == SumTo([t \in Threads |-> OccRec(queues[t], v)], MaxThreads - 1)
InFlight(v) ==
  SumTo([t \in Threads |-> IF Running(t) /\ item[t].val = v THEN 1 ELSE 0],
        MaxThreads - 1)
Places(v) == InWl(v) + InAborted(v) + InFlight(v)

\* v was seeded, or an iteration that pushes v has committed
Pushed(v) ==
  \/ v <= nseeds
  \/ \E p \in Items : committed[p] > 0 /\ v \in Range(Children(p))

\* v has been handed to the worklist
Created(v) ==
  \/ v <= nseeds /\ pc[(v - 1) % activeThreads] # "init"
  \/ \E p \in Items :
        /\ v \in Range(Children(p))
        /\ \/ committed[p] > 0
           \/ fastPush /\ \E t \in Workers : pc[t] = "commit" /\ item[t].val = p

\* C1: in a run in which the break flag was never set, once all workers have
\* left go(), every item that was seeded or pushed by a committed iteration
\* has been committed exactly once, and no other item was committed.
C1_Coverage ==
  (AllLeft /\ ~broke) =>
     \A v \in Items : committed[v] = IF Pushed(v) THEN 1 ELSE 0

\* a two-worker run without break ended after an abort and a pushed child
C1_Witness ==
  /\ AllLeft /\ ~broke /\ activeThreads = 2
  /\ everAborted # {}
  /\ committed[MaxSeeds + 1] = 1

\* C2: every live item (handed to the worklist, not yet committed) is in
\* exactly one place: the main worklist, one abort queue, or the running
\* item of one worker; every other item is in none.
C2_OnePlace ==
  \A v \in Items :
     Places(v) = IF Created(v) /\ committed[v] = 0 THEN 1 ELSE 0

\* a record sits in the abort queue of a worker that did not run it first,
\* while another item is running
C2_Witness ==
  \E t \in Workers, u \in Workers :
     /\ t # u
     /\ queues[t] # <<>> /\ Head(queues[t]).retries = MaxRetries
     /\ Running(u)

\* C4: the step that ends abortIteration leaves the conflict context
\* cancelled, the worker's push buffer empty, the per-iteration allocator
\* reset and the main worklist as it was; the operator step that ends in a
\* conflict leaves the main worklist as it was, too.
C4_Rollback ==
  [][\A t \in Threads :
       /\ (pc[t] = "abort" /\ pc'[t] # "abort") =>
            /\ ~ctx'[t]
            /\ pushBuffer'[t] = <<>>
            /\ ~pia'[t]
            /\ wl' = wl
       /\ (pc[t] = "operate" /\ pc'[t] = "abort") => wl' = wl]_vars

\* an abort has thrown away buffered pushes and its item waits for a retry
C4_Witness ==
  /\ rolled
  /\ \E t \in Workers : queues[t] # <<>> /\ pushBuffer[t] = <<>> /\ ~Running(t)

\* C5: the items a committed iteration pushed have been handed to the main
\* worklist when the commit is done, so before the worker's next
\* SignalWorked; that SignalWorked is called with an empty push buffer and
\* didWork = true; and once the detector has declared termination and a
\* worker has left go(), no item is waiting or running anywhere.
C5_PushVisible ==
  /\ \A p \in Items :
        committed[p] > 0 =>
           \A c \in Range(Children(p)) : Places(c) = 1 \/ committed[c] > 0
  /\ \A t \in Workers :
        pc[t] = "signal" => pushBuffer[t] = <<>> /\ (owed[t] => didWork[t])
  /\ \A t \in Workers :
        (Left(t) /\ ~Working(term)) => \A v \in Items : Places(v) = 0

\* a worker is about to signal after a commit whose pushed item is waiting
\* in the main worklist
C5_Witness ==
  \E t \in Workers :
     /\ pc[t] = "signal" /\ owed[t] /\ ~fastPush
     /\ \E p \in Items :
           committed[p] > 0 /\ \E c \in Range(Children(p)) : InWl(c) = 1

\* C6: in a run without break, when a worker has left go() the worklist of
\* every worker is empty.
C6_NoWorkLeft ==
  \A t \in Workers :
     (Left(t) /\ ~broke) => \A u \in Workers : wlEmpty(wl, u)

\* one worker has left go() while the other is still inside, in a run that
\* had work for both
C6_Witness ==
  \E t \in Workers, u \in Workers :
     /\ Left(t) /\ ~Left(u) /\ ~broke
     /\ committed[1] = 1 /\ committed[2] = 1

AllDone == \A t \in Workers : pc[t] = "done"

\* C3: the step that ends abortIteration leaves the item in the abort queue
\* of exactly one worker and nowhere else, and in a run without break every
\* item of which an iteration aborted is committed later on.
C3_NoLossOnAbort ==
  /\ [][\A t \in Threads :
          (pc[t] = "abort" /\ pc'[t] # "abort") =>
             \E v \in Items :
                v = item[t].val /\ InAborted(v)' = 1 /\ Places(v)' = 1]_vars
  /\ \A v \in Items :
        [](v \in everAborted => <>(broke \/ committed[v] = 1))

\* the run has ended without break, every item has aborted at some time and
\* every item is committed
C3_Witness ==
  /\ AllDone /\ ~broke
  /\ everAborted = Items
  /\ \A v \in Items : committed[v] = 1

InGoBarrier(t) == pc[t] \in {"barrier", "blocked"}

C8_BreakEnds ==
  /\ [](broke => <>AllDone)
  /\ [](broke => \A t \in Workers : ~InGoBarrier(t))
  /\ [][\A t \in Threads :
          (broke /\ pc[t] = "commit" /\ pc'[t] # "commit") =>
             \E v \in Items : v = item[t].val /\ committed'[v] = committed[v] + 1]_vars

\* the run has ended by break with an item left behind in a worklist and
\* the iteration that set the flag committed
C8_Witness ==
  /\ AllDone /\ broke /\ activeThreads = 2
  /\ \E t \in Workers : ~wlEmpty(wl, t)
  /\ \E v \in Items : BreakItem(v) /\ committed[v] = 1

\* C9 as stated: when the first operator invocation of the run has set the
\* break flag, no operator invocation begins after that iteration is over.
C9_NoFurtherInvocation == firstBroke = 2 => late = 0

\* C9 as amended: a batch takes at most NUM items from the main worklist
\* when the loop may break, and a worker that tests the loop condition with
\* the break flag up leaves the loop: it starts no further batch.
C9_BreakAtLoopTest ==
  /\ [](needsBreak => \A t \in Workers : lwl[t] = "wl" => num[t] <= NUM)
  /\ [][\A t \in Threads :
          (needsBreak /\ broke /\ pc[t] = "check") => pc'[t] \in {"check", "after"}]_vars

\* the first invocation set the flag, the same batch went on with another
\* invocation, and the worker then left the loop at its test
C9_Witness ==
  /\ firstBroke = 2 /\ late > 0
  /\ \E t \in Workers : pc[t] = "after" /\ broke

AtFunnel(v) ==
  \/ OccRec(queues[0], v) = 1
  \/ Running(0) /\ item[0].val = v

\* C10 as stated: with an item on which the operator always conflicts, the
\* run ends.
C10_RunEnds == <>AllDone

\* C10 as amended: a record of the item that has aborted 2 * activeThreads - 1
\* times or more (two aborts for each step of doublePolicy towards the
\* leader, after the first) is only ever in the abort queue of worker 0, the
\* leader of socket 0; unless
\* the loop is broken the item ends up there for good, being retried over
\* and over; and no worker leaves go() unless the loop is broken.
C10_FunnelLivelock ==
  /\ [](\A t \in Workers :
          \A i \in DOMAIN queues[t] :
             (/\ queues[t][i].val = stubborn
              /\ queues[t][i].retries >= 2 * activeThreads - 1) => t = 0)
  /\ <>[](broke \/ AtFunnel(stubborn))
  /\ [](~broke => \A t \in Workers : ~Left(t))

\* the record has reached worker 0 from another worker and has been retried
\* there past the retry bound, while the other items are committed
C10_Witness ==
  /\ stubborn # 0 /\ ~broke
  /\ OccRec(queues[0], stubborn) = 1
  /\ Head(queues[0]).retries > MaxRetries
  /\ committed[1] = 1

(* ---------------------- claims on AbortHandler ------------------------- *)
\* the record push(record) builds from the one it is given
NewItem == [val |-> last.item.val, retries |-> last.item.retries + 1]
\* the queues after the last call if the record went to thread t, and to t only
PutOn(t, rec) == [last.before EXCEPT ![t] = Append(@, rec)]

\* C11 as stated: push(record) places the record with the basic policy when
\* the pool has at most 2 sockets and with the double policy when it has
\* more than 2.
C11_BasicUpToTwoSockets ==
  last.op = "item" =>
    queues = PutOn(IF getMaxSockets <= 2 THEN basicPolicy(last.tid, NewItem)
                   ELSE doublePolicy(last.tid, NewItem), NewItem)

\* C11 as amended: push(record) places the record with the basic policy
\* when the pool has more than 2 sockets and with the double policy when it
\* has at most 2.
C11_BasicAboveTwoSockets ==
  last.op = "item" =>
    queues = PutOn(IF getMaxSockets > 2 THEN basicPolicy(last.tid, NewItem)
                   ELSE doublePolicy(last.tid, NewItem), NewItem)

\* a record re-aborted on a pool of more than 2 sockets, by a thread for
\* which the two policies name different queues
C11_Witness ==
  /\ last.op = "item"
  /\ getMaxSockets > 2
  /\ basicPolicy(last.tid, NewItem) # doublePolicy(last.tid, NewItem)
  /\ queues[basicPolicy(last.tid, NewItem)] # <<>>

\* the three targets the double policy chooses from
Midpoint(tid) == getLeader(tid) + (tid - getLeader(tid)) \div 2
UpTree(tid) == IF tid # getLeader(tid) THEN Midpoint(tid)
               ELSE getLeaderForSocket(getSocket(tid) \div 2)

\* C12 as stated: under the double policy a record whose retries count is
\* odd is put on the caller's own queue, any other record on the midpoint
\* between the caller and its socket leader, or, from a leader, on the leader
\* of socket socket/2; and on that queue only.
C12_OddStaysLocal ==
  (last.op = "item" /\ ~useBasicPolicy) =>
    queues = PutOn(IF NewItem.retries % 2 = 1 THEN last.tid ELSE UpTree(last.tid),
                   NewItem)

\* C12 as amended: under the double policy the record push(record) builds,
\* whose retries count is one more than that of the record given, is put on
\* the caller's own queue when the count of the record given is odd (its own
\* is even), otherwise on the midpoint between the caller and its socket
\* leader, or, from a leader, on the leader of socket socket/2; and on that
\* queue only, which the retries count, the caller and the topology fix.
C12_OddGivenStaysLocal ==
  (last.op = "item" /\ ~useBasicPolicy) =>
    queues = PutOn(IF last.item.retries % 2 = 1 THEN last.tid ELSE UpTree(last.tid),
                   NewItem)

\* a record given with an even count by a thread two away from its leader
\* has moved to the midpoint, which is neither the caller nor the leader
C12_Witness ==
  /\ last.op = "item" /\ ~useBasicPolicy
  /\ last.item.retries % 2 = 0
  /\ Midpoint(last.tid) \notin {last.tid, getLeader(last.tid)}
  /\ Len(queues[Midpoint(last.tid)]) = Len(last.before[Midpoint(last.tid)]) + 1

(* ------------------------ claims on the executor ----------------------- *)
\* C13: when an iteration on a value from the main worklist aborts, a record
\* with retries = 1 is appended to the worker's own abort queue and nothing
\* else changes in the queues; when an iteration on a record from the abort
\* queue aborts, a record with one more retry is appended to one queue; and
\* the retries of every queued record is the number of aborts of its item
\* since it was popped from the main worklist.
C13_RetriesCountAborts ==
  /\ [](\A t \in Workers :
          \A i \in DOMAIN queues[t] :
             queues[t][i].retries = aborts[queues[t][i].val])
  /\ [][\A t \in Workers :
          (pc[t] = "abort" /\ pc'[t] # "abort") =>
             IF lwl[t] = "wl"
               THEN queues' = [queues EXCEPT
                                 ![t] = Append(@, [val |-> item[t].val, retries |-> 1])]
               ELSE \E u \in Workers :
                      queues' = [queues EXCEPT
                                   ![u] = Append(@, [val |-> item[t].val,
                                                     retries |-> item[t].retries + 1])]]_vars

\* an item has aborted three times, once from the main worklist and twice
\* from an abort queue, and its record is queued
C13_Witness ==
  \E t \in Workers :
    /\ queues[t] # <<>>
    /\ Head(queues[t]).retries = 3
    /\ aborts[Head(queues[t]).val] = 3

\* C14: on an empty input range no worker ever invokes the operator, the
\* worklist stays empty, and every worker leaves go() and passes the final
\* barrier: for_each returns.
C14_EmptyRange ==
  /\ [](nseeds = 0 => ~invoked /\ \A t \in Workers : wl[t] = <<>> /\ ~Running(t))
  /\ (nseeds = 0 => <>AllDone)

\* two workers have returned from a run on an empty range
C14_Witness ==
  /\ nseeds = 0 /\ activeThreads = 2
  /\ AllDone /\ ~invoked

\* the order in which a sequential loop that pops until the worklist is
\* empty invokes the operator, from worklist q on
RECURSIVE SeqRun(_, _)
SeqRun(q, out) ==
  IF q = <<>> THEN out
  ELSE SeqRun(Tail(q) \o Children(Head(q)), Append(out, Head(q)))
IsPrefix(s, t) == Len(s) <= Len(t) /\ s = SubSeq(t, 1, Len(s))

\* C15: with one worker, whatever needsAborts is, no iteration aborts (the
\* run is dispatched with couldAbort false) and the abort queue stays empty;
\* the operator is invoked on the items in the order of the sequential loop,
\* on each item once, on all of them unless the operator breaks the loop;
\* the worker never waits at a barrier, and it returns.
C15_SingleWorkerSequential ==
  /\ [](activeThreads = 1 =>
          /\ queues[0] = <<>> /\ everAborted = {}
          /\ pc[0] \notin {"abort", "barrier", "blocked", "blockedfin"}
          /\ IsPrefix(trace, SeqRun(Slice(0), <<>>))
          /\ (AllDone /\ ~broke => trace = SeqRun(Slice(0), <<>>)))
  /\ (activeThreads = 1 => <>AllDone)

\* one worker with conflict detection on has run the operator on the seeds
\* and on the item pushed meanwhile, and has returned
C15_Witness ==
  /\ activeThreads = 1 /\ needsAborts /\ AllDone
  /\ Len(trace) = MaxItem
  /\ trace = SeqRun(Slice(0), <<>>)

(* ---------------------- claims on the worklists ------------------------ *)
BagOf(q) == [v \in Vals |-> Occ(q, v)]

\* C16: for each of the nine worklist classes, when one thread makes all the
\* calls and a pop reports failure, the values the pops have returned are,
\* counted with multiplicity, the values pushed.
C16_PoppedIsPushed == (popper = 0 /\ popFailed) => BagOf(popped) = pushed

\* every push allowed was made, one value twice, pops came in between, and
\* the pop after the last value failed
C16_Witness ==
  /\ popper = 0 /\ popFailed /\ mixed
  /\ NPushed = MaxPush /\ Len(popped) = MaxPush
  /\ \E v \in Vals : pushed[v] = 2

OneWorkerOBIM == kind = "OrderedByIntegerMetric" /\ popper = 0 /\ ~mixed
Bucket(v) == Min(I(v), size - 1)

\* C17 as stated: when one thread pushes and then pops an
\* OrderedByIntegerMetric, the Indexer values of the items popped never
\* decrease, also when values lie above the range.
C17_IndexNeverDecreases ==
  OneWorkerOBIM =>
    \A i, j \in DOMAIN popped : i < j => I(popped[i]) <= I(popped[j])

\* C17 as amended: when one thread pushes and then pops, the bucket numbers
\* min(Indexer, range) of the items popped never decrease; the Indexer
\* values themselves never decrease when no value pushed lies above the
\* range.
C17_BucketNeverDecreases ==
  OneWorkerOBIM =>
    /\ \A i, j \in DOMAIN popped : i < j => Bucket(popped[i]) <= Bucket(popped[j])
    /\ (\A v \in Vals : pushed[v] > 0 => I(v) <= OBIMRange) =>
         \A i, j \in DOMAIN popped : i < j => I(popped[i]) <= I(popped[j])

\* pushes of values in and above the range, then pops until failure: an item
\* below the range came out first, and of two items of the last bucket the
\* one with the greater index came out before the other
C17_Witness ==
  /\ OneWorkerOBIM /\ popFailed
  /\ Len(popped) = MaxPush
  /\ I(popped[1]) < OBIMRange
  /\ \E i, j \in DOMAIN popped : i < j /\ I(popped[i]) > I(popped[j])

TwoWorkerChunked == kind = "ChunkedFIFO" /\ popper = 1 /\ ~filled
\* the items in the producer chunk of thread 0
Private0 ==
  IF kind # "ChunkedFIFO" THEN <<>>
  ELSE IF ws.data[0].next = Null THEN <<>> ELSE ws.data[0].next[1].ring

\* C18 as stated: when thread 0 only pushes a ChunkedFIFO and thread 1 only
\* pops it, thread 1 gets every item: once thread 0 has made its last push
\* and a pop of thread 1 has failed (from then on every pop fails the same
\* way), the number of items popped equals the number pushed.
C18_PopperGetsAll ==
  (TwoWorkerChunked /\ NPushed = MaxPush /\ popFailed) =>
    Len(popped) = NPushed

\* C18 as amended: thread 1 gets the items of the chunks thread 0 has handed
\* to the shared list, and only those: a failing pop of thread 1 leaves
\* behind exactly the items in the producer chunk of thread 0, and that
\* chunk holds at least one item once anything was pushed.
C18_PopperGetsSharedChunks ==
  TwoWorkerChunked =>
    /\ popFailed => BagOf(popped \o Private0) = pushed
    /\ NPushed > 0 => Private0 # <<>>

\* thread 0 has made all its pushes, thread 1 has drained a chunk from the
\* shared list and its next pop has failed with items left to thread 0
C18_Witness ==
  /\ TwoWorkerChunked /\ popFailed
  /\ NPushed = MaxPush
  /\ Len(popped) >= ChunkSize
  /\ Len(popped) + Len(Private0) = NPushed

OneWorkerChunked == kind = "ChunkedFIFO" /\ popper = 0 /\ ~mixed
Leaked(h) == h.allocs - Cardinality(h.freed)

\* C19: for a ChunkedFIFO, after pushes followed by pops of the same thread
\* up to a pop that reports failure, the items popped are the items pushed,
\* each one once, every chunk allocated has been given back, none was given
\* back twice, and the destructor finds nothing left to give back.
C19_AllRecoveredNoLeak ==
  (OneWorkerChunked /\ popFailed) =>
    /\ BagOf(popped) = pushed
    /\ Leaked(ws.heap) = 0
    /\ ~ws.heap.twice
    /\ ChunkedFIFO_delete(ws).heap = ws.heap

\* all the pushes, then as many pops and the one that fails: more than one
\* chunk was allocated, one of them through the shared list
C19_Witness ==
  /\ OneWorkerChunked /\ popFailed
  /\ Len(popped) = MaxPush
  /\ ws.heap.allocs > 1
  /\ Cardinality(ws.heap.freed) = ws.heap.allocs

\* handleAborts of worker t is not running (it has returned, or was never
\* called)
Returned(t) == lwl[t] = "wl"

\* C20 as stated: whenever handleAborts has returned, the abort queue of the
\* worker holds none of the records that were in it at the first pop of
\* that handleAborts.
C20_QueueDrained ==
  \A t \in Workers : Returned(t) => drain[t].left = 0

\* C20 as amended: handleAborts retries the records of the worker's queue
\* until the queue is empty or a retried iteration aborts again; records
\* that were queued at its first pop are still queued at its return only
\* if its last iteration aborted, and it then reports work to go().
C20_DrainedOrCut ==
  \A t \in Workers :
    (Returned(t) /\ drain[t].left > 0) =>
      /\ drain[t].cut
      /\ pc[t] = "signal" => didWork[t]

\* a handleAborts that found two records or more has returned after a
\* retried iteration that aborted again, with a record not yet retried
C20_Witness ==
  \E t \in Workers :
    /\ Returned(t) /\ pc[t] = "signal"
    /\ drain[t].cut /\ drain[t].left > 0
    /\ Len(queues[t]) >= drain[t].left

\* worker t takes a step that starts, or that ends, an iteration
Starts(t) == pc[t] \in {"pop", "steal"} /\ pc'[t] = "operate"
Ends(t) == pc[t] \in {"commit", "abort"} /\ pc'[t] # pc[t]

\* C21: with conflict detection, on every worker startIteration is called
\* with no iteration open and opens one, commitIteration or cancelIteration
\* is called with an iteration open and closes it, nothing else opens or
\* closes an iteration, and the operator runs with an iteration open.
C21_IterationsBracketed ==
  [][\A t \in Workers : needsAborts =>
       /\ Starts(t) => (~ctx[t] /\ ctx'[t])
       /\ Ends(t) => (ctx[t] /\ ~ctx'[t])
       /\ ctx'[t] # ctx[t] => (Starts(t) \/ Ends(t))
       /\ pc[t] = "operate" => ctx[t]]_vars

\* a worker runs the operator on a record whose iteration was cancelled
\* before, after another of its iterations was committed
C21_Witness ==
  \E t \in Workers :
    /\ needsAborts /\ pc[t] = "operate" /\ ctx[t]
    /\ item[t].retries > 0
    /\ owed[t]

\* worker t is in a batch from the main worklist
InMainBatch(t) == lwl[t] = "wl" /\ pc[t] \in {"pop", "steal", "operate", "commit", "abort"}
\* go() runs the main batch of worker t through runQueue<__NUM>
Dispatched == couldAbort \/ needsBreak

\* C22 as stated: on a leader, and on every worker when the loop may break,
\* a batch from the main worklist pops at most NUM items.
C22_LeaderBatchLimited ==
  \A t \in Workers :
    (InMainBatch(t) /\ (isLeader(t) \/ needsBreak)) => num[t] <= NUM

\* C22 as amended: the limit holds in the runs that go through runQueue (an
\* abort is possible or the loop may break); there a worker that has popped
\* NUM items ends its batch at the loop head without touching the worklist.
\* In the other runs the batch of every worker, leaders too, is
\* runQueueSimple, which has no limit.
C22_DispatchedBatchLimited ==
  /\ [](\A t \in Workers :
         (Dispatched /\ InMainBatch(t) /\ (isLeader(t) \/ needsBreak)) =>
           num[t] <= NUM)
  /\ [][\A t \in Workers :
         (/\ Dispatched /\ lwl[t] = "wl" /\ limit(t) # 0
          /\ pc[t] = "pop" /\ num[t] = NUM
          /\ (pc'[t] # pc[t] \/ lwl'[t] # lwl[t])) =>
           /\ wl' = wl /\ item' = item
           /\ pc'[t] \notin {"operate", "steal"}
           /\ num'[t] = 0]_vars

\* a worker under the limit has popped NUM items and is back at the loop
\* head with another item in its worklist
C22_Witness ==
  \E t \in Workers :
    /\ Dispatched /\ limit(t) # 0
    /\ lwl[t] = "wl" /\ pc[t] = "pop" /\ num[t] = NUM
    /\ wl[t] # <<>>

\* worker t leaves the operator after it ran on an item it pushes
\* children for
RanPushing(t) ==
  /\ pc[t] = "operate" /\ pc'[t] # pc[t] /\ pia'[t]
  /\ item[t].val + MaxSeeds <= MaxItem
\* in that step the pushes went into the worklist, or into the push buffer
Direct(t) == wl'[t] # wl[t]
Buffered(t) == pushBuffer'[t] # pushBuffer[t]

\* C23 as stated: the pushes of the operator go straight into the worklist
\* only in a run in which no abort is possible and the operator does not
\* push.
C23_FastPushWithoutPushes ==
  [][\A t \in Workers :
       (RanPushing(t) /\ Direct(t)) => (~couldAbort /\ ~needsPush)]_vars

\* C23 as amended: the pushes of the operator go straight into the worklist
\* exactly in the runs in which no abort is possible and the operator may
\* push (needsPush); they wait in the push buffer exactly in the runs in
\* which an abort is possible and the operator may push.
C23_FastPushWithPushes ==
  [][\A t \in Workers :
       RanPushing(t) =>
         /\ Direct(t) <=> (~couldAbort /\ needsPush)
         /\ Buffered(t) <=> (couldAbort /\ needsPush)]_vars

\* in a run without aborts the operator has pushed a child, which is in the
\* worklist of the worker before the iteration is committed
C23_Witness ==
  \E t \in Workers :
    /\ ~couldAbort /\ needsPush
    /\ pc[t] = "commit" /\ pushBuffer[t] = <<>>
    /\ \E i \in DOMAIN wl[t] : wl[t][i] = item[t].val + MaxSeeds

\* C24: in a run in which the break flag stays down, when a worker is past
\* the do loop of go() or has left go(), the abort queue of every worker is
\* empty and no iteration is under way, also after a record was pushed
\* into the queue of a worker that had signalled that it did no work.
C24_NoExitWithAborted ==
  \A t \in Workers :
    ((pc[t] = "after" \/ Left(t)) /\ ~broke) =>
      \A u \in Workers : queues[u] = <<>> /\ ~Running(u)

\* a worker has left go() in a run without break in which an abort put a
\* record into the queue of another worker that had signalled no work
C24_Witness ==
  /\ remote /\ ~broke /\ ~needsBreak
  /\ \E t \in Workers : Left(t)
  /\ \A v \in everAborted : committed[v] = 1

\* worker u is inside the do loop of go(): it has not yet seen Working()
\* answer false for this round
InLoop(u) == pc[u] \in {"pop", "steal", "operate", "commit", "abort", "signal", "check"}
\* worker t takes the step of go() that calls term.InitializeThread() again
ReInit(t) == pc[t] = "after" /\ pc'[t] = "barrier"

\* C25: a worker signals to the detector only after its InitializeThread on
\* entry, and when a worker calls InitializeThread again at a quiescence
\* that does not exit, the workers have all left the do loop: none of them
\* has still to test Working() for that round.
C25_ReInitAfterRound ==
  [][\A t \in Workers :
       /\ pc'[t] = "signal" => pc[t] # "init"
       /\ ReInit(t) => \A u \in Workers \ {t} : ~InLoop(u)]_vars

\* the least k with 2^k >= n
RECURSIVE CeilLog2(_)
CeilLog2(n) == IF n <= 1 THEN 0 ELSE 1 + CeilLog2((n + 1) \div 2)
\* s halved k times
RECURSIVE Halved(_, _)
Halved(s, k) == IF k = 0 THEN s ELSE Halved(s \div 2, k - 1)

\* C26: under the basic policy push(record) puts the record on the queue of
\* the leader of socket s/2, s the socket of the caller, and on that queue
\* only; a record pushed k times that way is with the leader of a socket no
\* higher than the last socket halved k times, so that after as many
\* pushes as the logarithm of the socket count (rounded up) it is with the
\* leader of socket 0; and a push by that leader puts it back on its own
\* queue.
C26_BasicFunnelsToSocketZero ==
  useBasicPolicy =>
    /\ last.op = "item" =>
          /\ queues = PutOn(getLeaderForSocket(getSocket(last.tid) \div 2), NewItem)
          /\ last.tid = getLeaderForSocket(0) => queues = PutOn(last.tid, NewItem)
    /\ \A t \in Workers : \A i \in DOMAIN queues[t] :
          LET k == queues[t][i].retries - 1
          IN  k > 0 =>
                /\ isLeader(t)
                /\ getSocket(t) <= Halved(getMaxSockets - 1, k)
                /\ k >= CeilLog2(getMaxSockets) => t = getLeaderForSocket(0)

\* on a pool of five sockets or more a record that had come down from
\* socket 4 or 5 to the leader of socket 2 has aborted again and is with
\* the leader of socket 1
C26_Witness ==
  /\ useBasicPolicy /\ last.op = "item"
  /\ getSocket(last.tid) = 2 /\ last.item.retries = 2
  /\ \E i \in DOMAIN queues[getLeaderForSocket(1)] :
        queues[getLeaderForSocket(1)][i] = NewItem

(* ------------------------------------------------------------------------ *)
(* C27: when a worker has left go(), its iterations counter is the number   *)
(* of iterations it committed, its conflicts counter the number it aborted, *)
(* and its pushes counter the number of items it moved from its push buffer *)
(* into the worklist.                                                       *)
(* ------------------------------------------------------------------------ *)
C27_CountersAreCommitsAbortsMoved ==
  \A t \in Workers :
    Left(t) => /\ stats[t].iterations = tally[t].commits
               /\ stats[t].conflicts = tally[t].aborts
               /\ stats[t].pushes = tally[t].moved

\* C27 as the code has it: iterations counts every iteration the worker
\* started, committed or aborted; pushes counts the items moved when an
\* iteration commits, and none of those pushed through the shortcut
C27_CountersAreStartsAbortsCommitMoves ==
  \A t \in Workers :
    /\ stats[t].iterations = tally[t].commits + tally[t].aborts
                               + (IF pc[t] \in {"operate", "commit", "abort"} THEN 1 ELSE 0)
    /\ stats[t].conflicts = tally[t].aborts
    /\ stats[t].pushes = tally[t].atCommit
    /\ fastPush => stats[t].pushes = 0
    /\ ~fastPush => tally[t].moved = tally[t].atCommit

C27_Witness ==
  \E t \in Workers :
    /\ Left(t) /\ needStats
    /\ tally[t].aborts > 0 /\ tally[t].commits > 0 /\ stats[t].pushes > 0

C27_WitnessFast ==
  \E t \in Workers : Left(t) /\ needStats /\ fastPush /\ tally[t].moved > 0
(* ------------------------------------------------------------------------ *)
(* C28: with no other operation in progress, ChunkedFIFO.empty() called by  *)
(* a worker returns true if and only if that worker's consumer chunk, its   *)
(* producer chunk and the shared chunk list all hold no items.              *)
(* ------------------------------------------------------------------------ *)
ItemsIn(c) == IF c = Null THEN <<>> ELSE c[1].ring
HoldNoItems(s, tid) ==
  /\ ItemsIn(s.data[tid].cur) = <<>>
  /\ ItemsIn(s.data[tid].next) = <<>>
  /\ \A i \in DOMAIN s.head : s.head[i].ring = <<>>
Probed == kind = "ChunkedFIFO" /\ probe # NoProbe

C28_EmptyIffNoItems ==
  Probed => (probe.ret <=> HoldNoItems(ws, probe.tid))

\* the two ways the answer is wrong: false on an object that holds nothing,
\* true while the shared list holds items
C28_FalseOnEmpty == Probed /\ ~probe.ret /\ NPushed = 0
C28_TrueOnItems == Probed /\ probe.ret /\ ws.head # <<>> /\ ws.head[1].ring # <<>>
(* ------------------------------------------------------------------------ *)
(* C29: ChunkedFIFO.pop takes from the caller's consumer chunk while that   *)
(* chunk has items; once it is empty the chunk is freed and pop takes a     *)
(* chunk from the shared list if there is one, and adopts the caller's own  *)
(* producer chunk only when the shared list is empty; it reports failure    *)
(* only when all three are empty, and every item it returns is the front    *)
(* item of a chunk that held it.                                            *)
(* ------------------------------------------------------------------------ *)
ChunkedPopStep ==
  /\ kind = "ChunkedFIFO" /\ probe' = NoProbe /\ pushed' = pushed
  /\ Len(popped') > Len(popped) \/ (popFailed' /\ ~popFailed)
\* pop returned the front item of ring q and kept the rest as consumer chunk
Took(q) ==
  /\ q # <<>> /\ ~popFailed'
  /\ popped' = Append(popped, Head(q))
  /\ ItemsIn(ws'.data[popper].cur) = Tail(q)

C29_PopOrder ==
  [][ChunkedPopStep =>
       LET n == ws.data[popper]
           cur == ItemsIn(n.cur)
           nxt == ItemsIn(n.next)
       IN  /\ cur # <<>> =>
                 /\ Took(cur)
                 /\ ws'.head = ws.head /\ ws'.data[popper].next = n.next
           /\ (n.cur # Null /\ cur = <<>>) => n.cur[1].id \in ws'.heap.freed
           /\ (cur = <<>> /\ ws.head # <<>>) =>
                 /\ Took(ws.head[1].ring)
                 /\ ws'.head = Tail(ws.head) /\ ws'.data[popper].next = n.next
           /\ (cur = <<>> /\ ws.head = <<>> /\ nxt # <<>>) =>
                 /\ Took(nxt)
                 /\ ws'.data[popper].next = Null
           /\ popFailed' <=> HoldNoItems(ws, popper)
           /\ ws'.data[1 - popper] = ws.data[1 - popper]
           /\ ~ws'.heap.twice]_vars

\* a pop that found its consumer chunk used up, freed it, found the shared
\* list empty and adopted its own producer chunk
C29_Witness ==
  /\ kind = "ChunkedFIFO" /\ popper = 0 /\ Len(popped) = ChunkSize + 1
  /\ ws.heap.freed # {} /\ ws.head = <<>> /\ ~filled
  /\ ws.data[0].next = Null /\ ws.data[0].cur # Null

\* a pop that took a chunk from the shared list while the caller's own
\* producer chunk held an item
C29_WitnessShared ==
  /\ kind = "ChunkedFIFO" /\ popper = 0 /\ Len(popped) = 1
  /\ ws.data[0].next # Null /\ ws.data[0].cur # Null
  /\ ws.head = <<>> /\ NPushed = ChunkSize + 1
(* ------------------------------------------------------------------------ *)
(* C30: on a StealingLocalWL with no other operation in progress, empty()   *)
(* called by worker w returns true only if a pop by w would report failure, *)
(* that is only if w's own queue and the next worker's queue are both       *)
(* empty.                                                                   *)
(* ------------------------------------------------------------------------ *)
RECURSIVE RingsOf(_)
RingsOf(cs) == IF cs = <<>> THEN <<>> ELSE Head(cs).ring \o RingsOf(Tail(cs))
QueueOf(t) == RingsOf(ws.data[t].chunks)
ProbedTrue == kind = "StealingLocalWL" /\ probe # NoProbe /\ probe.ret

C30_EmptyOnlyIfPopFails ==
  ProbedTrue =>
    /\ ~Pop(kind, ws, probe.tid).ok
    /\ QueueOf(probe.tid) = <<>> /\ QueueOf(getNext(probe.tid)) = <<>>

\* empty() answered true to a worker whose pop then returned an item
C30_PopAfterEmpty ==
  [][(ProbedTrue /\ probe.tid = popper /\ probe' = NoProbe /\ pushed' = pushed)
       => Len(popped') = Len(popped)]_vars
(* ------------------------------------------------------------------------ *)
(* C31: OrderedByIntegerMetric.push puts the item in bucket                 *)
(* min(Indexer(v), size - 1) and lowers the pushing worker's cursor to that *)
(* bucket when the cursor was higher; after any sequence of pushes and pops *)
(* every worker's cursor is below size when pop starts.                     *)
(* ------------------------------------------------------------------------ *)
IsOBIM == kind = "OrderedByIntegerMetric"
BucketItems(s, b) == RingsOf(s.data[b].chunks)

C31_PushBucketAndCursor ==
  /\ [](IsOBIM => \A t \in Workers : ws.cursor[t] \in 0 .. size - 1)
  /\ [][\A v \in Vals :
         (IsOBIM /\ pushed'[v] = pushed[v] + 1) =>
           /\ BucketItems(ws', Bucket(v)) = Append(BucketItems(ws, Bucket(v)), v)
           /\ \A b \in 0 .. size - 1 :
                b # Bucket(v) => BucketItems(ws', b) = BucketItems(ws, b)
           /\ ws'.cursor[0] = Min(ws.cursor[0], Bucket(v))
           /\ ws'.cursor[1] = ws.cursor[1]]_vars

\* the worker popped an item of the last bucket, which left its cursor there,
\* and then pushed an item of bucket 1: the cursor is at 1, where no pop of
\* this run has put it
C31_Witness ==
  /\ IsOBIM /\ popper = 0
  /\ Len(popped) = 1 /\ Bucket(popped[1]) = size - 1
  /\ ws.cursor[0] = 1 /\ BucketItems(ws, 1) # <<>>
(* ------------------------------------------------------------------------ *)
(* C32: when OrderedByIntegerMetric is used by one worker, between          *)
(* operations every bucket with an index below the cursor is empty, so each *)
(* successful pop returns an item from the lowest-indexed non-empty bucket  *)
(* and leaves the cursor on that bucket.                                    *)
(* ------------------------------------------------------------------------ *)
OneWorker == IsOBIM /\ popper = 0
NonEmptyBuckets(s) == {b \in 0 .. size - 1 : BucketItems(s, b) # <<>>}
Lowest(S) == CHOOSE b \in S : \A c \in S : b <= c

C32_CursorAtLowestBucket ==
  /\ [](OneWorker => \A b \in 0 .. size - 1 :
                        b < ws.cursor[0] => BucketItems(ws, b) = <<>>)
  /\ [][(OneWorker /\ Len(popped') > Len(popped)) =>
         LET low == Lowest(NonEmptyBuckets(ws))
         IN  /\ popped' = Append(popped, Head(BucketItems(ws, low)))
             /\ BucketItems(ws', low) = Tail(BucketItems(ws, low))
             /\ ws'.cursor[0] = low]_vars

\* the one worker pushed an item of bucket 1 and one of bucket 2 and popped
\* once: the scan took the item of bucket 1 and left the cursor there
C32_Witness ==
  /\ OneWorker /\ NPushed = 2 /\ Len(popped) = 1
  /\ Bucket(popped[1]) = 1 /\ ws.cursor[0] = 1
  /\ BucketItems(ws, 2) # <<>>
(* ------------------------------------------------------------------------ *)
(* C33: with several workers, OrderedByIntegerMetric.pop never reports      *)
(* failure while an item that was pushed before the call began stays in a   *)
(* bucket for the whole call, for the default container FIFO and for the    *)
(* containers whose try_pop gives up when the lock is held.                 *)
(* ------------------------------------------------------------------------ *)
Concurrent == kind = "OrderedByIntegerMetric, concurrent"
Failed(t) == Concurrent /\ th[t].pc = "failed"

C33_WitnessFIFO ==
  \E t \in Workers : Failed(t) /\ ws.cty = "FIFO" /\ popped # <<>>
                                  /\ InBuckets(ws) = {}
(* ------------------------------------------------------------------------ *)
(* C35: in LocalQueues, push adds the item to the calling worker's local    *)
(* queue, aborted and fillInitial add it to the shared global queue, and    *)
(* pop returns an item of the global queue only when the caller's local     *)
(* queue is empty.                                                          *)
(* ------------------------------------------------------------------------ *)
IsLocalQueues == kind = "LocalQueues"
LocalOf(s, t) == RingsOf(s.local[t].chunks)
GlobalOf(s) == RingsOf(s.global.chunks)
Added(v) == pushed' = [pushed EXCEPT ![v] = @ + 1]

C35_LocalQueuesRouting ==
  [][IsLocalQueues =>
       /\ call' = "push" =>
             \E v \in Vals : /\ Added(v)
                              /\ LocalOf(ws', 0) = Append(LocalOf(ws, 0), v)
                              /\ LocalOf(ws', 1) = LocalOf(ws, 1)
                              /\ GlobalOf(ws') = GlobalOf(ws)
       /\ call' = "aborted" =>
             \E v \in Vals : /\ Added(v)
                              /\ GlobalOf(ws') = Append(GlobalOf(ws), v)
                              /\ \A t \in Workers : LocalOf(ws', t) = LocalOf(ws, t)
       /\ call' = "fill" =>
             /\ BagOfSeq(GlobalOf(ws')) = pushed'
             /\ \A t \in Workers : LocalOf(ws', t) = LocalOf(ws, t)
       /\ (call' = "pop" /\ Len(popped') > Len(popped)) =>
             IF LocalOf(ws, popper) # <<>>
               THEN /\ popped' = Append(popped, Head(LocalOf(ws, popper)))
                    /\ LocalOf(ws', popper) = Tail(LocalOf(ws, popper))
                    /\ GlobalOf(ws') = GlobalOf(ws)
               ELSE /\ popped' = Append(popped, Head(GlobalOf(ws)))
                    /\ GlobalOf(ws') = Tail(GlobalOf(ws))]_vars

\* thread 1, whose local queue is always empty, popped an item of the global
\* queue while the item thread 0 pushed stays in thread 0's local queue
C35_Witness ==
  /\ IsLocalQueues /\ popper = 1 /\ call = "pop"
  /\ popped # <<>> /\ LocalOf(ws, 0) # <<>>

\* thread 0 popped the item of its local queue and left the global queue
C35_WitnessLocal ==
  /\ IsLocalQueues /\ popper = 0 /\ call = "pop" /\ filled
  /\ Len(popped) = 1 /\ NPushed = MaxFill + 1 /\ Len(GlobalOf(ws)) = MaxFill
(* ------------------------------------------------------------------------ *)
(* C34: LogOrderByIntegerMetric.push puts an item with index 0 in bucket 0  *)
(* and an item with index i > 0 in bucket 1 + floor(log2 i); for every      *)
(* 32-bit unsigned index the bucket lies in 0..32, and a larger index never *)
(* gets a smaller bucket.                                                   *)
(* ------------------------------------------------------------------------ *)
\* floor(log2 n) for 0 < n <= HalfMax, by the powers of two around n
FloorLog2(n) == CHOOSE k \in 0 .. HalfBits - 1 : 2 ^ k <= n /\ n < 2 ^ (k + 1)
FloorLog2U(u) == IF u.hi # 0 THEN HalfBits + FloorLog2(u.hi) ELSE FloorLog2(u.lo)
LogBucket(u) == IF u.hi = 0 /\ u.lo = 0 THEN 0 ELSE 1 + FloorLog2U(u)
LessU(u, w) == u.hi < w.hi \/ (u.hi = w.hi /\ u.lo < w.lo)
\* the buckets that hold u
BucketsOf(u) ==
  {b \in DOMAIN ws.data : \E i \in DOMAIN RingsOf(ws.data[b].chunks) :
                              RingsOf(ws.data[b].chunks)[i] = u}
BothPushed == kind = "LogOrderByIntegerMetric, unsigned" /\ th[0].pc = "idle"

C34_LogBucket ==
  BothPushed =>
    LET u == th[0].first
        w == th[0].second
    IN  /\ BucketsOf(u) = {LogBucket(u)}
        /\ BucketsOf(w) = {LogBucket(w)}
        /\ DOMAIN ws.data = 0 .. 32
        /\ LessU(u, w) => LogBucket(u) <= LogBucket(w)
        /\ LessU(u, w) => \A b \in BucketsOf(u), c \in BucketsOf(w) : b <= c

\* the index 2^32 - 1 is in bucket 32 and the index 2^31 - 1 in bucket 31
C34_Witness ==
  /\ BothPushed
  /\ th[0].first = [hi |-> HalfMax, lo |-> HalfMax]
  /\ th[0].second = [hi |-> 2 ^ (HalfBits - 1) - 1, lo |-> HalfMax]
  /\ BucketsOf(th[0].first) = {32} /\ BucketsOf(th[0].second) = {31}
(* ------------------------------------------------------------------------ *)
(* C36: in FIFO, head and tail are never null after construction, and for   *)
(* any sequence of pushes and pops items are popped in the order they were  *)
(* pushed, also across chunk boundaries and after empty chunks have been    *)
(* unlinked and freed.                                                      *)
(* ------------------------------------------------------------------------ *)
IsFIFO == kind = "FIFO"
\* the items of the chunks from head to tail
Linked(s) == RingsOf(s.chunks)

C36_FIFOOrder ==
  /\ [](IsFIFO => /\ Len(ws.chunks) >= 1
                  /\ \A i \in DOMAIN ws.chunks : ws.chunks[i].id \notin ws.heap.freed
                  /\ ~ws.heap.twice)
  /\ [][IsFIFO =>
         /\ call' = "push" =>
               \E v \in Vals : Added(v) /\ Linked(ws') = Append(Linked(ws), v)
         /\ call' = "pop" =>
               IF Linked(ws) = <<>>
                 THEN popFailed' /\ popped' = popped /\ Linked(ws') = <<>>
                 ELSE /\ popped' = Append(popped, Head(Linked(ws)))
                      /\ Linked(ws') = Tail(Linked(ws))]_vars

\* pushes and pops in turn: the values came out in the order they went in,
\* from more than one chunk, and a used-up chunk was freed on the way
C36_Witness ==
  /\ IsFIFO /\ mixed /\ Len(popped) = MaxPush
  /\ ws.heap.freed # {} /\ Len(ws.chunks) = 1
  /\ popped[1] # popped[2]
(* ------------------------------------------------------------------------ *)
(* C38: pageFree(m) called by any thread puts page m on the free list of    *)
(* the thread that first obtained m from the OS, so only a later pageAlloc  *)
(* of that owner thread can return m again; pageAlloc returns a page of the *)
(* caller's own free list when it is non-empty and maps a new page          *)
(* otherwise, and no page is returned by pageAlloc twice without a pageFree *)
(* of it in between.                                                        *)
(* ------------------------------------------------------------------------ *)
IsPages == kind = "pages"
OnLists(s, m) == {t \in Workers : \E i \in DOMAIN s.free[t] : s.free[t][i] = m}

C38_PagesGoBackToOwner ==
  /\ [](IsPages => \A m \in Pages :
                     /\ OnLists(ws, m) \subseteq {hist.first[m]}
                     /\ \A t \in Workers :
                          Cardinality({i \in DOMAIN ws.free[t] : ws.free[t][i] = m}) <= 1
                     /\ m \in hist.inUse => OnLists(ws, m) = {})
  /\ [][IsPages =>
         \A t \in Workers :
           /\ (th[t].pc = "link" /\ th'[t].pc # "link") =>
                 /\ ws'.free[hist.first[th[t].m]] = <<th[t].m>> \o ws.free[hist.first[th[t].m]]
                 /\ \A u \in Workers \ {hist.first[th[t].m]} : ws'.free[u] = ws.free[u]
           /\ (hist'.ret # hist.ret /\ hist'.ret.tid = t) =>
                 /\ hist'.ret.page \notin hist.inUse
                 /\ hist.first[hist'.ret.page] \in {t, NoThread} \/ hist'.ret.fresh
                 /\ ~hist'.ret.fresh => /\ ws.free[t] # <<>>
                                        /\ hist'.ret.page = Head(ws.free[t])
                                        /\ hist.first[hist'.ret.page] = t
           /\ (th[t].pc = "idle" /\ th'[t].pc = "os" /\ th'[t].pre = 0) =>
                 ws.free[t] = <<>>]_vars

\* thread 1 freed a page that thread 0 had mapped, and thread 0 got it back
\* from its own list
C38_Witness ==
  /\ IsPages /\ hist.ret.tid = 0 /\ ~hist.ret.fresh
  /\ hist.first[hist.ret.page] = 0
  /\ hist.ret.page \in hist.inUse
  /\ ws.head[1] = FALSE /\ ws.mapped = 1 /\ ws.free[1] = <<>>
  /\ call = "none" /\ th[1] = Idle
(* ------------------------------------------------------------------------ *)
(* C37: for FIFO with concurrent pushers and poppers, every interleaving of *)
(* push, pop and empty is deadlock-free, no chunk is read or written after  *)
(* popEmptyChunksLocked has deallocated it, no two threads access the ring  *)
(* of one chunk at the same time, and each pushed item is returned by       *)
(* exactly one pop.                                                         *)
(* ------------------------------------------------------------------------ *)
IsFIFOc == kind = "FIFO, concurrent"
Busy(t) == th[t].pc # "idle"
\* the chunks linked from head, in order
RECURSIVE ChainFrom(_, _)
ChainFrom(c, n) ==
  IF c = 0 \/ n = 0 THEN <<>> ELSE <<c>> \o ChainFrom(ws.chunks[c].next, n - 1)
RECURSIVE RingsAlong(_)
RingsAlong(cs) ==
  IF cs = <<>> THEN <<>> ELSE ws.chunks[Head(cs)].ring \o RingsAlong(Tail(cs))
InFIFO == RingsAlong(ChainFrom(ws.head.ptr, MaxChunks))
\* the values in a ring linked to the FIFO by a push, and those a pop holds
\* or has returned
Stored == {v \in Vals : pushed[v] = 1 /\ \A t \in Workers :
                           ~(th[t].pc \in {"p2", "p3", "p6"} /\ th[t].val = v)}
Taken == popped \o SelectSeq([i \in 1 .. activeThreads |->
                               IF th[i - 1].pc \in {"q7", "q8"} /\ th[i - 1].op = "pop"
                                  /\ th[i - 1].ok
                                 THEN th[i - 1].val ELSE MaxVal + 1],
                             LAMBDA x : x <= MaxVal)

C37_FIFOConcurrent ==
  IsFIFOc =>
    /\ (\E t \in Workers : Busy(t)) => \E t \in Workers : Busy(t) /\ ENABLED FIFO_step(t)
    /\ ~hist.uaf /\ ~hist.race /\ ~hist.lost
    /\ \A t, u \in Workers :
         (t # u /\ th[t].pc \in {"p3", "q3", "q6"} /\ th[u].pc \in {"p3", "q3", "q6"}) =>
           (IF th[t].pc = "p3" THEN ws.tail.ptr ELSE ws.head.ptr)
             # (IF th[u].pc = "p3" THEN ws.tail.ptr ELSE ws.head.ptr)
    /\ \A v \in Vals : Occ(Taken \o InFIFO, v) = IF v \in Stored THEN 1 ELSE 0
    /\ ~ws.chunks[ws.head.ptr].freed

\* a pop is unlinking the empty head chunk and waits for the lock of the next
\* chunk, which the push that just linked that chunk still holds, with tail
\* still at the chunk the pop is about to free
C37_Witness ==
  /\ IsFIFOc
  /\ \E t, u \in Workers :
       /\ th[t].pc = "p7" /\ th[u].pc = "q4"
       /\ ws.chunks[th[u].old].next = th[t].nc
       /\ ws.tail.ptr = th[u].old
       /\ ~ENABLED FIFO_step(u)

\* every value has been pushed and popped, and chunks were freed on the way
C37_WitnessDrained ==
  /\ IsFIFOc /\ Len(popped) = MaxVal + 1
  /\ Cardinality({c \in ChunkIds : ws.chunks[c].freed}) >= 1
  /\ \A t \in Workers : ~Busy(t)
(* ------------------------------------------------------------------------ *)
(* C39: for both the Ullmann and the VF2 search run through for_each with   *)
(* several workers, the number of matchings appended to the report, and the *)
(* final value of currentlyFound, never exceeds kFound.                     *)
(* ------------------------------------------------------------------------ *)
IsSearch == kind = "search"
C39_AtMostKFound ==
  IsSearch => ws.appended <= ws.kFound /\ ws.currentlyFound <= ws.kFound

\* what does hold: each worker that passed the test at the entry of doSearch
\* appends at most one matching after the limit is reached
C39_ExcessBelowWorkers ==
  IsSearch => /\ ws.appended <= ws.kFound + activeThreads - 1
              /\ ws.currentlyFound <= ws.appended
              /\ Cardinality(ws.report) = ws.appended

\* the loop is over with more matchings in the report than kFound, for each
\* algorithm
C39_OverUllmann ==
  /\ IsSearch /\ ws.algo = "ullmann"
  /\ \A t \in Workers : th[t].pc = "idle"
  /\ ws.appended > ws.kFound /\ ws.currentlyFound > ws.kFound
C39_OverVF2 ==
  /\ IsSearch /\ ws.algo = "vf2"
  /\ \A t \in Workers : th[t].pc = "idle"
  /\ ws.appended > ws.kFound /\ ws.currentlyFound > ws.kFound

(* ------------------------------------------------------------------------ *)
(* C40: in the VF2 search, whenever doSearch returns without the kFound     *)
(* limit having been reached, the LocalState (qFrontier, qMatched,          *)
(* dFrontier, dMatched) and the matching are equal to their values when     *)
(* that call of doSearch was entered, also when the query node was chosen   *)
(* by nextQueryNode while qFrontier was empty.                              *)
(* ------------------------------------------------------------------------ *)
Normal(t) == th[t].pc = "ret" /\ th[t].back.how \in {"found", "end"}
C40_StateRestored ==
  (IsSearch /\ ws.algo = "vf2") =>
    \A t \in Workers :
      Normal(t) => /\ th[t].state = th[t].back.state
                     /\ th[t].matching = th[t].back.matching

\* what does hold at such a return: the matching and all of the LocalState but
\* qFrontier are as at entry, and qFrontier has gained at most the query node
\* of the call
C40_AllButFrontier ==
  (IsSearch /\ ws.algo = "vf2") =>
    \A t \in Workers :
      Normal(t) =>
        /\ th[t].matching = th[t].back.matching
        /\ th[t].state.qMatched = th[t].back.state.qMatched
        /\ th[t].state.dMatched = th[t].back.state.dMatched
        /\ th[t].state.dFrontier = th[t].back.state.dFrontier
        /\ th[t].back.state.qFrontier \subseteq th[t].state.qFrontier
        /\ Cardinality(th[t].state.qFrontier \ th[t].back.state.qFrontier) <= 1
        /\ (th[t].back.state.qFrontier # {} \/ th[t].back.how = "found")
             => th[t].state.qFrontier = th[t].back.state.qFrontier

\* a call that chose its query node with qFrontier empty has returned at the
\* end of its loop, and qFrontier holds a node
C40_StrayNode ==
  /\ IsSearch /\ ws.algo = "vf2"
  /\ \E t \in Workers :
       /\ Normal(t) /\ th[t].back.how = "end"
       /\ th[t].back.state.qFrontier = {} /\ th[t].state.qFrontier # {}
       /\ ws.currentlyFound < ws.kFound
====
